---- MODULE Spec2Model ----
(***************************************************************************)
(* A model of fastapi-cbv: the class-definition-time introspection of      *)
(* ViewMeta.__new__ (src/src/fastcbv/views.py), the status_code marker     *)
(* (src/src/fastcbv/decorators.py), the registration facade                *)
(* APIRouter.add_view / APIRouter.view (src/src/fastapi_cbv/routing.py)    *)
(* and the request-time behaviour of the synthesized endpoint.             *)
(*                                                                         *)
(* Python values are modelled as follows.  Identifiers and opaque values   *)
(* are strings.  A dict is a sequence of [name, value] items with unique   *)
(* names, in insertion order.  A string annotation (the form left by       *)
(* "from __future__ import annotations") is written with its quotes,       *)
(* "'int'"; a resolved type is written bare, "int".  Classes live in the   *)
(* table `classes`; a class is named by its index, BaseView is class 1.  A *)
(* class has one base and may list after it one mixin, a class without     *)
(* bases of its own, so the method resolution order of a class is its      *)
(* chain of bases followed by the mixins of the chain.                     *)
(***************************************************************************)
EXTENDS Integers, Sequences, FiniteSets, TLC

VARIABLES
    classes,     \* the view classes defined so far, BaseView first
    defError,    \* what the latest class statement raised ("" when nothing)
    routes,      \* the router's routes, in registration order
    warnings,    \* the warnings emitted by add_view, in order
    regResult,   \* the outcome of the latest add_view / view(...)(cls) call
    reqs,        \* the endpoint invocations, in call order
    instances    \* the view instances constructed so far

vars == <<classes, defError, routes, warnings, regResult, reqs, instances>>

-----------------------------------------------------------------------------
(* Bounds of the model.                                                    *)

MaxClasses == 2      \* class statements executed after BaseView
MaxCalls == 2        \* add_view / view calls on the router
MaxReqs == 2         \* endpoint invocations (all may be in flight together)

-----------------------------------------------------------------------------
(* Python constants.                                                       *)

\* inspect.Parameter.empty / inspect.Signature.empty
Empty == "<empty>"
\* None where a string is expected (name_prefix, the view's name attribute)
NoneStr == "<None>"
\* None where a list is expected (methods)
NoneList == <<"<None>">>
\* None where an int is expected (ViewConfig.status_code)
NoneInt == -1

\* inspect.Parameter.KEYWORD_ONLY; the other kinds are "POSITIONAL_ONLY",
\* "POSITIONAL_OR_KEYWORD", "VAR_POSITIONAL" and "VAR_KEYWORD"
KEYWORD_ONLY == "KEYWORD_ONLY"

\* the verbs in alphabetical order: the mutant
HTTP_METHODS_sorted == <<"delete", "get", "head", "options", "patch", "post", "put">>

HTTP_METHODS == <<"get", "post", "put", "patch", "delete", "head", "options">>

STATUS_CODE_ATTR == "_fastapi_cbv_status_code"

\* the exclude patterns of _extract_class_params and _extract_func_params
ClassExclude == {"^return$", "^_"}
FuncExclude == {"^self$", "^args$", "^kwargs$", "^_"}

\* the index of BaseView in the class table; 0 stands for "no base"
BaseViewId == 1
\* no class: the base of a root class, the value of a call that returned none
NoClass == 0

-----------------------------------------------------------------------------
(* Strings.                                                                *)

Range(s) == {s[i] : i \in DOMAIN s}

StartsWith(s, p) == Len(s) >= Len(p) /\ SubSeq(s, 1, Len(p)) = p

EndsWith(s, p) == Len(s) >= Len(p) /\ SubSeq(s, Len(s) - Len(p) + 1, Len(s)) = p

\* re.match(e, name) for the patterns the code uses: "^lit$" and "^lit"
re_match(e, name) ==
    LET body == IF StartsWith(e, "^") THEN SubSeq(e, 2, Len(e)) ELSE e
    IN  IF EndsWith(body, "$")
        THEN name = SubSeq(body, 1, Len(body) - 1)
        ELSE StartsWith(name, body)

UpperAlpha == "ABCDEFGHIJKLMNOPQRSTUVWXYZ"
LowerAlpha == "abcdefghijklmnopqrstuvwxyz"

\* the character of `to` standing where c stands in `from`; c itself otherwise
MapChar(c, from, to) ==
    IF \E i \in 1..Len(from) : SubSeq(from, i, i) = c
    THEN LET i == CHOOSE j \in 1..Len(from) : SubSeq(from, j, j) = c
         IN  SubSeq(to, i, i)
    ELSE c

RECURSIVE MapStr(_, _, _)
MapStr(s, from, to) ==
    IF s = "" THEN ""
    ELSE MapChar(SubSeq(s, 1, 1), from, to) \o MapStr(SubSeq(s, 2, Len(s)), from, to)

\* str.lower()
lower(s) == MapStr(s, UpperAlpha, LowerAlpha)
\* str.upper()
upper(s) == MapStr(s, LowerAlpha, UpperAlpha)

-----------------------------------------------------------------------------
(* Dicts: sequences of [name, value] items.                                *)

Keys(d) == {d[i].name : i \in DOMAIN d}

HasKey(d, k) == \E i \in DOMAIN d : d[i].name = k

Get(d, k, dflt) ==
    IF HasKey(d, k) THEN d[CHOOSE i \in DOMAIN d : d[i].name = k].value ELSE dflt

\* d[k] = v: an existing key keeps its position, a new key goes last
\* d[k] = v that moves a key already there to the end: the mutant
SetItemAtEnd(d, k, v) ==
    Append(SelectSeq(d, LAMBDA it : it.name # k), [name |-> k, value |-> v])

SetItem(d, k, v) ==
    IF HasKey(d, k)
    THEN [i \in DOMAIN d |-> IF d[i].name = k THEN [name |-> k, value |-> v] ELSE d[i]]
    ELSE Append(d, [name |-> k, value |-> v])

RECURSIVE Update(_, _)
\* d.update(e)
Update(d, e) ==
    IF e = <<>> THEN d
    ELSE Update(SetItem(d, Head(e).name, Head(e).value), Tail(e))

-----------------------------------------------------------------------------
(* Annotations and typing.get_type_hints.                                  *)

\* the type names that exist at runtime in the modules of the views; a name
\* imported under TYPE_CHECKING only (here "Session") is not among them
RuntimeTypes == {"int", "str", "dict", "Any", "None", "Request", "ViewMetadata", "Item"}

IsStrAnnotation(a) == Len(a) >= 2 /\ StartsWith(a, "'") /\ EndsWith(a, "'")

Unquote(a) == SubSeq(a, 2, Len(a) - 1)

\* evaluating one annotation raises NameError
EvalRaises(a) == IsStrAnnotation(a) /\ Unquote(a) \notin RuntimeTypes

\* the value of one annotation once evaluated; get_type_hints gives the type
\* of None for the annotation None
Eval(a) ==
    IF ~IsStrAnnotation(a) THEN a
    ELSE IF Unquote(a) = "None" THEN "NoneType"
    ELSE Unquote(a)

EvalAll(d) == [i \in DOMAIN d |-> [name |-> d[i].name, value |-> Eval(d[i].value)]]

AnyEvalRaises(d) == \E i \in DOMAIN d : EvalRaises(d[i].value)

-----------------------------------------------------------------------------
(* Functions (methods of a view class).                                    *)

Param(name, kind, default, annotation) ==
    [name |-> name, kind |-> kind, default |-> default, annotation |-> annotation]

\* a function object: its __name__, the parameters inspect.signature reports,
\* its declared return annotation, its attribute dict, and whether its body
\* is the inherited "pass" or code written by the application
Func(name, params, returns, body) ==
    [name |-> name, params |-> params, returns |-> returns,
     attrs |-> <<>>, body |-> body]

\* func.__annotations__: the annotated parameters in order, then "return"
FuncAnnotations(f) ==
    LET annotated == SelectSeq(f.params, LAMBDA p : p.annotation # Empty)
        ps == [i \in DOMAIN annotated |->
                 [name |-> annotated[i].name, value |-> annotated[i].annotation]]
    IN  IF f.returns # Empty
        THEN Append(ps, [name |-> "return", value |-> f.returns])
        ELSE ps

\* a resolver that falls back name by name, keeping what it can evaluate:
\* the mutant
resolve_hints_func_by_name(f) ==
    [i \in DOMAIN FuncAnnotations(f) |->
        [name |-> FuncAnnotations(f)[i].name,
         value |-> IF EvalRaises(FuncAnnotations(f)[i].value)
                   THEN FuncAnnotations(f)[i].value
                   ELSE Eval(FuncAnnotations(f)[i].value)]]

\* a resolver that returns __annotations__ as they are: the mutant
resolve_hints_func_raw(f) == FuncAnnotations(f)

\* _resolve_hints(obj) for a callable
resolve_hints_func(f) ==
    IF AnyEvalRaises(FuncAnnotations(f))
    THEN FuncAnnotations(f)
    ELSE EvalAll(FuncAnnotations(f))

Excluded(exclude, name) == \E e \in exclude : re_match(e, name)

\* _extract_func_params without the replace(kind=...): the mutant
extract_func_params_keeping_kind(f) ==
    LET hints == resolve_hints_func(f)
        kept == SelectSeq(f.params, LAMBDA p : ~Excluded(FuncExclude, p.name))
    IN  [i \in DOMAIN kept |->
           Param(kept[i].name, kept[i].kind, kept[i].default,
                 Get(hints, kept[i].name, kept[i].annotation))]

\* _extract_func_params(func)
extract_func_params(f) ==
    LET hints == resolve_hints_func(f)
        kept == SelectSeq(f.params, LAMBDA p : ~Excluded(FuncExclude, p.name))
    IN  [i \in DOMAIN kept |->
           Param(kept[i].name, KEYWORD_ONLY, kept[i].default,
                 Get(hints, kept[i].name, kept[i].annotation))]

\* status_code(code)(func): sets the attribute on the function and returns it
status_code(code, f) ==
    [f EXCEPT !.attrs = SetItem(f.attrs, STATUS_CODE_ATTR, code)]

\* _get_status_code with the router's default in the place of None: the mutant
get_status_code_200(f) == Get(f.attrs, STATUS_CODE_ATTR, 200)

\* _get_status_code(func)
get_status_code(f) == Get(f.attrs, STATUS_CODE_ATTR, NoneInt)

-----------------------------------------------------------------------------
(* Classes.                                                                *)

RECURSIVE MRO(_, _)
\* cls.__mro__ without object, for "class c(base, mixin)": the class, the
\* linearization of its base, then the mixin unless the base has it already
MRO(tbl, c) ==
    IF c = NoClass THEN <<>>
    ELSE LET of_base == MRO(tbl, tbl[c].base)
             m == tbl[c].mixin
         IN  <<c>> \o of_base
                 \o (IF m = NoClass \/ m \in Range(of_base) THEN <<>> ELSE <<m>>)

Reverse(s) == [i \in DOMAIN s |-> s[Len(s) + 1 - i]]

\* issubclass(view, BaseView)
issubclass_BaseView(tbl, c) == BaseViewId \in Range(MRO(tbl, c))

\* the class's own namespace binds the name
Binds(k, name) == HasKey(k.attrs, name) \/ HasKey(k.funcs, name)

\* hasattr(cls, name) restricted to the class's own namespace: the mutant
hasattr_own(tbl, c, name) == Binds(tbl[c], name)

\* hasattr(cls, name): some class of the MRO binds the name
hasattr(tbl, c, name) == \E k \in Range(MRO(tbl, c)) : Binds(tbl[k], name)

\* attribute lookup on the class finds the name
Found(tbl, c, name) == \E k \in Range(MRO(tbl, c)) : Binds(tbl[k], name)

\* the first class of the MRO that binds the name
Owner(tbl, c, name) ==
    LET mro == MRO(tbl, c)
        i == CHOOSE j \in DOMAIN mro :
                 /\ Binds(tbl[mro[j]], name)
                 /\ \A h \in 1..(j - 1) : ~Binds(tbl[mro[h]], name)
    IN  mro[i]

\* the attribute is a function
IsFunction(tbl, c, name) == HasKey(tbl[Owner(tbl, c, name)].funcs, name)

\* getattr(cls, name) when the attribute is a function
\* the attribute looked up from the root of the hierarchy down, so that an
\* ancestor's method wins over the override: the mutant
GetFuncRootFirst(tbl, c, name) ==
    LET order == Reverse(MRO(tbl, c))
        i == CHOOSE j \in DOMAIN order :
                 /\ Binds(tbl[order[j]], name)
                 /\ \A h \in 1..(j - 1) : ~Binds(tbl[order[h]], name)
    IN  Get(tbl[order[i]].funcs, name, <<>>)

GetFunc(tbl, c, name) == Get(tbl[Owner(tbl, c, name)].funcs, name, <<>>)

\* cls.__dict__.get(name, dflt), which sees no inherited attribute: the mutant
GetAttrOwn(tbl, c, name, dflt) ==
    IF HasKey(tbl[c].funcs, name) THEN "<function " \o name \o ">"
    ELSE Get(tbl[c].attrs, name, dflt)

\* getattr(cls, name, dflt) as a value; a function shows as its repr
GetAttr(tbl, c, name, dflt) ==
    IF ~Found(tbl, c, name) THEN dflt
    ELSE IF IsFunction(tbl, c, name) THEN "<function " \o name \o ">"
    ELSE Get(tbl[Owner(tbl, c, name)].attrs, name, dflt)

RECURSIVE MergeAnnotations(_, _)
\* the __annotations__ of the classes of `order`, each updating the last
MergeAnnotations(tbl, order) ==
    IF order = <<>> THEN <<>>
    ELSE Update(MergeAnnotations(tbl, SubSeq(order, 1, Len(order) - 1)),
                tbl[order[Len(order)]].annotations)

\* get_type_hints(cls) raises: it evaluates the annotations of every class
\* of the MRO, those a subclass overrides too
ClassHintsRaise(tbl, c) ==
    \E k \in Range(MRO(tbl, c)) : AnyEvalRaises(tbl[k].annotations)

\* the fallback without "reversed": the mutant
resolve_hints_class_unreversed(tbl, c) ==
    IF ClassHintsRaise(tbl, c)
    THEN MergeAnnotations(tbl, MRO(tbl, c))
    ELSE EvalAll(MergeAnnotations(tbl, Reverse(MRO(tbl, c))))

\* _resolve_hints(obj) for a class
resolve_hints_class(tbl, c) ==
    LET raw == MergeAnnotations(tbl, Reverse(MRO(tbl, c)))
    IN  IF ClassHintsRaise(tbl, c) THEN raw ELSE EvalAll(raw)

\* _extract_class_params(cls)
extract_class_params(tbl, c) ==
    LET hints == resolve_hints_class(tbl, c)
        kept == SelectSeq(hints, LAMBDA h : ~Excluded(ClassExclude, h.name))
    IN  [i \in DOMAIN kept |->
           Param(kept[i].name, KEYWORD_ONLY,
                 GetAttr(tbl, c, kept[i].name, Empty), kept[i].value)]

-----------------------------------------------------------------------------
(* ViewMeta.__new__: the introspection run by every class statement.       *)

\* the inverted sort key: the mutant
SortKeyInverted(p) == p.default = Empty

\* key=lambda p: p.default is not inspect.Parameter.empty
SortKey(p) == p.default # Empty

\* False sorts before True
KeyLeq(a, b) == (~a) \/ b

RECURSIVE InsertSorted(_, _)
\* p put behind every element whose key is not greater than its own
InsertSorted(sorted, p) ==
    IF sorted = <<>> THEN <<p>>
    ELSE IF KeyLeq(SortKey(Head(sorted)), SortKey(p))
         THEN <<Head(sorted)>> \o InsertSorted(Tail(sorted), p)
         ELSE <<p>> \o sorted

RECURSIVE SortParams(_)
\* params.sort(key=...): list.sort is stable and ascending
SortParams(ps) ==
    IF ps = <<>> THEN <<>>
    ELSE InsertSorted(SortParams(SubSeq(ps, 1, Len(ps) - 1)), ps[Len(ps)])

\* a Signature that validates nothing: the mutant
SignatureRaisesNever(ps) == FALSE

\* inspect.Signature(parameters=...) raises ValueError on a repeated name
SignatureRaises(ps) == \E i, j \in DOMAIN ps : i < j /\ ps[i].name = ps[j].name

\* an endpoint whose return annotation is the one the method declares, as
\* declared: the mutant
EndpointDeclaredReturn(c, func, params, class_params, prepare_params) ==
    [cls |-> c, func |-> func, params |-> params,
     class_params |-> class_params, prepare_params |-> prepare_params,
     signature |-> SortParams(class_params \o prepare_params \o params),
     return_annotation |-> func.returns,
     name |-> func.name]

\* the closure make_endpoint returns, with the attributes __new__ sets on it:
\* cls, class_params and prepare_params are the cells of __new__'s scope,
\* func and params the arguments of make_endpoint
Endpoint(c, func, params, class_params, prepare_params) ==
    [cls |-> c, func |-> func, params |-> params,
     class_params |-> class_params, prepare_params |-> prepare_params,
     signature |-> SortParams(class_params \o prepare_params \o params),
     return_annotation |-> Get(resolve_hints_func(func), "return", Empty),
     name |-> func.name]

ViewConfig(endpoint, method_name, status) ==
    [endpoint |-> endpoint, method_name |-> method_name, status_code |-> status]

\* a loop body whose endpoint constructs the class that wrote the verb
\* method, the ancestor for an inherited verb: the mutant
ConfigForDefiningClass(tbl, c, method_name, class_params, prepare_params) ==
    IF ~IsFunction(tbl, c, method_name)
    THEN [error |-> "TypeError", config |-> <<>>]
    ELSE LET method_func == GetFunc(tbl, c, method_name)
             method_params == extract_func_params(method_func)
             endpoint == Endpoint(Owner(tbl, c, method_name), method_func,
                                  method_params, class_params, prepare_params)
         IN  IF SignatureRaises(endpoint.signature)
             THEN [error |-> "ValueError", config |-> <<>>]
             ELSE [error |-> "",
                   config |-> <<ViewConfig(endpoint, method_name,
                                           get_status_code(method_func))>>]

\* one pass of the loop body for a verb the class has: the config appended,
\* or the error raised (a verb attribute that is no callable makes
\* inspect.signature raise TypeError)
ConfigFor(tbl, c, method_name, class_params, prepare_params) ==
    IF ~IsFunction(tbl, c, method_name)
    THEN [error |-> "TypeError", config |-> <<>>]
    ELSE LET method_func == GetFunc(tbl, c, method_name)
             method_params == extract_func_params(method_func)
             endpoint == Endpoint(c, method_func, method_params,
                                  class_params, prepare_params)
         IN  IF SignatureRaises(endpoint.signature)
             THEN [error |-> "ValueError", config |-> <<>>]
             ELSE [error |-> "",
                   config |-> <<ViewConfig(endpoint, method_name,
                                           get_status_code(method_func))>>]

\* an error of one verb swallowed, the loop going on without a config for
\* it: the mutant
AppendedOrSkipped(acc, one) ==
    IF one.error # "" THEN acc
    ELSE [error |-> "", configs |-> acc.configs \o one.config]

\* cls._meta.configs.append(...), or the error leaving __new__
Appended(acc, one) ==
    IF one.error # "" THEN [error |-> one.error, configs |-> <<>>]
    ELSE [error |-> "", configs |-> acc.configs \o one.config]

RECURSIVE BuildConfigs(_, _, _, _, _, _)
\* the loop "for method_name in HTTP_METHODS" from its i-th iteration on,
\* acc holding the configs appended so far
BuildConfigs(tbl, c, i, class_params, prepare_params, acc) ==
    IF i > Len(HTTP_METHODS) \/ acc.error # "" THEN acc
    ELSE IF ~hasattr(tbl, c, HTTP_METHODS[i])
         THEN BuildConfigs(tbl, c, i + 1, class_params, prepare_params, acc)
         ELSE BuildConfigs(tbl, c, i + 1, class_params, prepare_params,
                  Appended(acc, ConfigFor(tbl, c, HTTP_METHODS[i],
                                          class_params, prepare_params)))

\* the class object type.__new__ makes of a class body, with an empty _meta
NewClass(body) ==
    [name |-> body.name, base |-> body.base, mixin |-> body.mixin,
     annotations |-> body.annotations,
     attrs |-> body.attrs, funcs |-> body.funcs, meta |-> [configs |-> <<>>]]

\* __new__ without "cls._meta = ViewMetadata()": the configs are appended to
\* the metadata object the class inherits from its base: the mutant
ViewMeta_new_inherited_meta(tbl, body) ==
    LET c == Len(tbl) + 1
        tbl1 == Append(tbl, NewClass(body))
    IN  IF body.base = NoClass THEN [error |-> "", classes |-> tbl1]
        ELSE LET class_params == extract_class_params(tbl1, c)
                 prepare_params == extract_func_params(GetFunc(tbl1, c, "__prepare__"))
                 built == BuildConfigs(tbl1, c, 1, class_params, prepare_params,
                                       [error |-> "", configs |-> <<>>])
                 shared == tbl1[body.base].meta.configs \o built.configs
             IN  IF built.error # "" THEN [error |-> built.error, classes |-> tbl]
                 ELSE [error |-> "",
                       classes |-> [tbl1 EXCEPT ![c].meta.configs = shared,
                                                ![body.base].meta.configs = shared]]

\* __new__ that merges the parameters of the hook the base has into those of
\* the hook the class writes: the mutant
ViewMeta_new_merged_hooks(tbl, body) ==
    LET c == Len(tbl) + 1
        tbl1 == Append(tbl, NewClass(body))
    IN  IF body.base = NoClass THEN [error |-> "", classes |-> tbl1]
        ELSE LET class_params == extract_class_params(tbl1, c)
                 prepare_params ==
                     extract_func_params(GetFunc(tbl1, c, "__prepare__"))
                     \o (IF HasKey(body.funcs, "__prepare__")
                         THEN extract_func_params(GetFunc(tbl1, body.base, "__prepare__"))
                         ELSE <<>>)
                 built == BuildConfigs(tbl1, c, 1, class_params, prepare_params,
                                       [error |-> "", configs |-> <<>>])
             IN  IF built.error # "" THEN [error |-> built.error, classes |-> tbl]
                 ELSE [error |-> "",
                       classes |-> [tbl1 EXCEPT ![c].meta.configs = built.configs]]

\* ViewMeta.__new__(mcs, name, bases, namespace): the error raised ("" when
\* none) and the class table with the new class in it
ViewMeta_new(tbl, body) ==
    LET c == Len(tbl) + 1
        tbl1 == Append(tbl, NewClass(body))
    IN  IF body.base = NoClass THEN [error |-> "", classes |-> tbl1]
        ELSE LET class_params == extract_class_params(tbl1, c)
                 prepare_params == extract_func_params(GetFunc(tbl1, c, "__prepare__"))
                 built == BuildConfigs(tbl1, c, 1, class_params, prepare_params,
                                       [error |-> "", configs |-> <<>>])
             IN  IF built.error # "" THEN [error |-> built.error, classes |-> tbl]
                 ELSE [error |-> "",
                       classes |-> [tbl1 EXCEPT ![c].meta.configs = built.configs]]

-----------------------------------------------------------------------------
(* BaseView.                                                               *)

Item(name, value) == [name |-> name, value |-> value]

\* async def __prepare__(self, *args, **kwargs): pass
BaseView_prepare ==
    Func("__prepare__",
         <<Param("self", "POSITIONAL_OR_KEYWORD", Empty, Empty),
           Param("args", "VAR_POSITIONAL", Empty, "'Any'"),
           Param("kwargs", "VAR_KEYWORD", Empty, "'Any'")>>,
         "'None'", "pass")

\* a BaseView that does not annotate request: the mutant
BaseViewBody_without_request ==
    [name |-> "BaseView", base |-> 0, mixin |-> 0,
     annotations |-> <<Item("_meta", "'ViewMetadata'")>>,
     attrs |-> <<>>,
     funcs |-> <<Item("__prepare__", BaseView_prepare)>>]

\* the body of class BaseView(metaclass=ViewMeta)
BaseViewBody ==
    [name |-> "BaseView", base |-> 0, mixin |-> 0,
     annotations |-> <<Item("_meta", "'ViewMetadata'"), Item("request", "'Request'")>>,
     attrs |-> <<>>,
     funcs |-> <<Item("__prepare__", BaseView_prepare)>>]

-----------------------------------------------------------------------------
(* The class bodies the class statements of the model are drawn from.      *)

Self == Param("self", "POSITIONAL_OR_KEYWORD", Empty, Empty)

\* async def v(self): ...
PlainMethod(v) == Func(v, <<Self>>, Empty, "user")

\* async def v(self, item_id: int, q: str = None) -> dict: ...
QueryMethod(v) ==
    Func(v, <<Self, Param("item_id", "POSITIONAL_OR_KEYWORD", Empty, "'int'"),
              Param("q", "POSITIONAL_OR_KEYWORD", "None", "'str'")>>,
         "'dict'", "user")

\* @status_code(201)
\* async def v(self, body: Item, *args, **kwargs) -> Item: ...
CreateMethod(v) ==
    status_code(201,
        Func(v, <<Self, Param("body", "POSITIONAL_OR_KEYWORD", Empty, "'Item'"),
                  Param("args", "VAR_POSITIONAL", Empty, Empty),
                  Param("kwargs", "VAR_KEYWORD", Empty, Empty)>>,
             "'Item'", "user"))

\* @status_code(204)
\* async def v(self, page: int = 1, *, user_id: int, _trace: str = "") -> None: ...
PagedMethod(v) ==
    status_code(204,
        Func(v, <<Self, Param("page", "POSITIONAL_OR_KEYWORD", "1", "'int'"),
                  Param("user_id", "KEYWORD_ONLY", Empty, "'int'"),
                  Param("_trace", "KEYWORD_ONLY", "''", "'str'")>>,
             "'None'", "user"))

\* async def v(self, q: str, d: Session = None) -> dict: ...
\* (Session is imported under TYPE_CHECKING only)
SessionMethod(v) ==
    Func(v, <<Self, Param("q", "POSITIONAL_OR_KEYWORD", Empty, "'str'"),
              Param("d", "POSITIONAL_OR_KEYWORD", "None", "'Session'")>>,
         "'dict'", "user")

\* the verb methods of a class body, in the order they are written
MethodTables ==
    {<<>>,
     <<Item("get", PlainMethod("get"))>>,
     <<Item("get", QueryMethod("get"))>>,
     <<Item("get", PagedMethod("get"))>>,
     <<Item("options", CreateMethod("options"))>>,
     <<Item("post", CreateMethod("post")), Item("get", PlainMethod("get"))>>,
     <<Item("delete", PagedMethod("delete")), Item("get", QueryMethod("get")),
       Item("post", CreateMethod("post"))>>,
     <<Item("options", PlainMethod("options")), Item("head", PlainMethod("head")),
       Item("delete", PlainMethod("delete")), Item("patch", PlainMethod("patch")),
       Item("put", PlainMethod("put")), Item("post", PlainMethod("post")),
       Item("get", PlainMethod("get"))>>}

NoHook == <<>>

\* async def __prepare__(self, user_id: int): ...
UserHook ==
    <<Item("__prepare__",
           Func("__prepare__",
                <<Self, Param("user_id", "POSITIONAL_OR_KEYWORD", Empty, "'int'")>>,
                Empty, "user"))>>

\* async def __prepare__(self, lang: str = "en", *extra): ...
LangHook ==
    <<Item("__prepare__",
           Func("__prepare__",
                <<Self, Param("lang", "POSITIONAL_OR_KEYWORD", "en", "'str'"),
                  Param("extra", "VAR_POSITIONAL", Empty, Empty)>>,
                Empty, "user"))>>

NoFields == [annotations |-> <<>>, attrs |-> <<>>]

\* limit: int = 10; token: str; name = "items"
LimitFields ==
    [annotations |-> <<Item("limit", "'int'"), Item("token", "'str'")>>,
     attrs |-> <<Item("limit", "10"), Item("name", "items")>>]

\* db: Session = Depends(get_db); _cache: dict = {}
SessionFields ==
    [annotations |-> <<Item("db", "'Session'"), Item("_cache", "'dict'")>>,
     attrs |-> <<Item("db", "Depends(get_db)"), Item("_cache", "{}")>>]

\* db: dict = {}
DictFields == [annotations |-> <<Item("db", "'dict'")>>, attrs |-> <<Item("db", "{}")>>]

\* the class-level fields and attributes a class body may declare
FieldTables ==
    {NoFields,
     LimitFields,
     \* token: int = 0
     [annotations |-> <<Item("token", "'int'")>>,
      attrs |-> <<Item("token", "0")>>],
     SessionFields,
     \* options = "verbose"
     [annotations |-> <<>>, attrs |-> <<Item("options", "verbose")>>]}

\* the method tables written beside a hook that takes user_id
HookedTables ==
    {<<Item("get", PlainMethod("get"))>>,
     <<Item("get", PagedMethod("get"))>>,
     <<Item("delete", PagedMethod("delete")), Item("get", QueryMethod("get")),
       Item("post", CreateMethod("post"))>>}

\* the shapes of class body the model draws from: every method table alone,
\* some of them beside a hook, and every field table with one method, two
\* of them also with a hook of their own (a subclass combines them further)
BodyShapes ==
    ({NoFields} \X {NoHook} \X MethodTables)
    \cup ({NoFields} \X {UserHook} \X HookedTables)
    \cup (FieldTables \X {NoHook} \X {<<Item("get", QueryMethod("get"))>>})
    \cup ({NoFields, LimitFields} \X {LangHook} \X {<<Item("get", QueryMethod("get"))>>})

\* async def __prepare__(self, db: Session, lang: str = "en"): ...
\* (Session is imported under TYPE_CHECKING only)
SessionHook ==
    <<Item("__prepare__",
           Func("__prepare__",
                <<Self, Param("db", "POSITIONAL_OR_KEYWORD", Empty, "'Session'"),
                  Param("lang", "POSITIONAL_OR_KEYWORD", "en", "'str'")>>,
                Empty, "user"))>>

\* class bodies whose annotations are deferred, some of them naming a type
\* that exists for static checking only
HintShapes ==
    ({NoFields, LimitFields, SessionFields, DictFields} \X {NoHook}
         \X {<<Item("get", QueryMethod("get"))>>})
    \cup ({NoFields} \X {NoHook}
             \X {<<>>,
                 <<Item("put", SessionMethod("put"))>>,
                 <<Item("get", PlainMethod("get"))>>,
                 <<Item("post", CreateMethod("post")), Item("get", PlainMethod("get"))>>})
    \cup ({NoFields, LimitFields} \X {LangHook} \X {<<Item("get", QueryMethod("get"))>>})
    \cup ({NoFields} \X {UserHook} \X {<<Item("get", PagedMethod("get"))>>})
    \cup ({NoFields} \X {SessionHook} \X {<<Item("get", PlainMethod("get"))>>})

ClassNames == <<"BaseView", "ItemView", "ChildView", "GrandChildView", "LeafView">>

\* the class bodies that can follow the classes of tbl: any view class of tbl
\* as the base, and a namespace that binds every name once
Bodies(tbl, shapes) ==
    {[name |-> ClassNames[Len(tbl) + 1], base |-> b, mixin |-> NoClass,
      annotations |-> sh[1].annotations, attrs |-> sh[1].attrs,
      funcs |-> sh[2] \o sh[3]] :
         b \in {k \in DOMAIN tbl : Len(tbl) < Len(ClassNames)
                                       /\ issubclass_BaseView(tbl, k)},
         sh \in {x \in shapes : Keys(x[1].attrs) \cap Keys(x[3]) = {}}}

\* async def __prepare__(self, item_id: int):
\*     await super().__prepare__(); self.item_id = item_id
SuperHook ==
    <<Item("__prepare__",
           Func("__prepare__",
                <<Self, Param("item_id", "POSITIONAL_OR_KEYWORD", Empty, "'int'")>>,
                Empty, "super"))>>

\* token: int = 0; size: int
RetypedFields ==
    [annotations |-> <<Item("token", "'int'"), Item("size", "'int'")>>,
     attrs |-> <<Item("token", "0")>>]

\* request = None
RequestAttr == [annotations |-> <<>>, attrs |-> <<Item("request", "None")>>]

\* the class bodies of the inheritance patterns: a base with marked verbs
\* under a hook, bodies that override a verb without a marker, override the
\* hook, add or retype fields, assign request, or add nothing at all
InheritShapes ==
    {<<NoFields, NoHook, <<Item("get", PlainMethod("get"))>>>>,
     <<NoFields, LangHook,
       <<Item("delete", PagedMethod("delete")), Item("get", QueryMethod("get")),
         Item("post", CreateMethod("post"))>>>>,
     <<NoFields, NoHook, <<Item("delete", PlainMethod("delete"))>>>>,
     <<NoFields, SuperHook, <<Item("get", PlainMethod("get"))>>>>,
     <<LimitFields, NoHook, <<Item("get", QueryMethod("get"))>>>>,
     <<RetypedFields, NoHook, <<>>>>,
     <<RequestAttr, NoHook, <<Item("get", PlainMethod("get"))>>>>,
     <<NoFields, NoHook, <<>>>>}

\* the bodies of the classes used as mixins, which have no bases:
\* class DbMixin: db: dict        class TraceMixin: trace: str = ""
PlainBodies ==
    {[name |-> "DbMixin", base |-> NoClass, mixin |-> NoClass,
      annotations |-> <<Item("db", "'dict'")>>, attrs |-> <<>>, funcs |-> <<>>],
     [name |-> "TraceMixin", base |-> NoClass, mixin |-> NoClass,
      annotations |-> <<Item("trace", "'str'")>>, attrs |-> <<Item("trace", "''")>>,
      funcs |-> <<>>]}

\* the classes of tbl a class statement can list as a mixin
Mixins(tbl) == {k \in DOMAIN tbl : k # BaseViewId /\ tbl[k].base = NoClass}

\* the class bodies "class <name>(<base>, <mixin>)" and "class <name>(<base>)"
\* that can follow the classes of tbl
MixinBodies(tbl, shapes) ==
    {[body EXCEPT !.mixin = m] :
         body \in Bodies(tbl, shapes), m \in Mixins(tbl) \cup {NoClass}}

-----------------------------------------------------------------------------
(* APIRouter.add_view and APIRouter.view.                                  *)

\* bool(x) of an Optional[str] and of an Optional[list]
TruthyStr(x) == x # NoneStr /\ x # ""
TruthyList(x) == x # NoneList /\ x # <<>>

\* the documentation options of add_view, passed on to every route
DefaultOptions ==
    [tags |-> NoneStr, dependencies |-> NoneStr, responses |-> NoneStr,
     deprecated |-> FALSE, include_in_schema |-> TRUE,
     callbacks |-> NoneStr, openapi_extra |-> NoneStr]

\* fastapi's APIRouter.add_api_route: one more route at the end of routes
add_api_route(rts, path, endpoint, methods, name, status, options) ==
    Append(rts, [path |-> path, endpoint |-> endpoint, methods |-> methods,
                 name |-> name, status_code |-> status, options |-> options])

\* the filter that compares the caller's names as given: the mutant
methods_filter_as_given(methods) ==
    IF TruthyList(methods) THEN Range(methods) ELSE {}

\* {m.lower() for m in methods} if methods else None; None is the empty set
methods_filter(methods) ==
    IF TruthyList(methods) THEN {lower(m) : m \in Range(methods)} ELSE {}

\* name_prefix or view.__name__, the declared name left out: the mutant
route_prefix_without_name(tbl, view, name_prefix) ==
    IF TruthyStr(name_prefix) THEN name_prefix ELSE tbl[view].name

\* name_prefix or getattr(view, "name", None) or view.__name__
route_prefix(tbl, view, name_prefix) ==
    IF TruthyStr(name_prefix) THEN name_prefix
    ELSE IF TruthyStr(GetAttr(tbl, view, "name", NoneStr))
         THEN GetAttr(tbl, view, "name", NoneStr)
         ELSE tbl[view].name

RECURSIVE RegisterConfigs(_, _, _, _)
\* the loop "for config in view._meta.configs" from its i-th iteration on
RegisterConfigs(tbl, rts, i, a) ==
    LET configs == tbl[a.view].meta.configs
    IN  IF i > Len(configs) THEN rts
        ELSE IF methods_filter(a.methods) # {}
                /\ configs[i].method_name \notin methods_filter(a.methods)
             THEN RegisterConfigs(tbl, rts, i + 1, a)
             ELSE RegisterConfigs(tbl,
                      add_api_route(rts, a.path, configs[i].endpoint,
                          {upper(configs[i].method_name)},
                          route_prefix(tbl, a.view, a.name_prefix) \o "_"
                              \o configs[i].method_name,
                          configs[i].status_code, a.options),
                      i + 1, a)

\* the type check that lets every class through: the mutant
view_check_raises_never(tbl, view) == FALSE

\* "if not issubclass(view, BaseView): raise TypeError"
view_check_raises(tbl, view) == ~issubclass_BaseView(tbl, view)

\* the test for a view without routes that never fires: the mutant
no_configs_never(tbl, view) == FALSE

\* "if not view._meta.configs"
no_configs(tbl, view) == tbl[view].meta.configs = <<>>

NoRouteWarning(tbl, view) == "No route methods found in view " \o tbl[view].name

\* add_view that filters whenever a list is given, so that an empty list
\* lets no config through: the mutant
add_view_filtering_whenever_listed(tbl, rts, warns, a) ==
    IF view_check_raises(tbl, a.view)
    THEN [raised |-> "TypeError", routes |-> rts, warnings |-> warns]
    ELSE IF no_configs(tbl, a.view)
    THEN [raised |-> "", routes |-> rts,
          warnings |-> Append(warns, NoRouteWarning(tbl, a.view))]
    ELSE [raised |-> "",
          routes |-> IF a.methods = <<>> THEN rts ELSE RegisterConfigs(tbl, rts, 1, a),
          warnings |-> warns]

\* add_view(path, view, methods=..., name_prefix=..., **options) on a router
\* with routes rts that has emitted warns: what it raises ("" when nothing),
\* and the routes and the warnings after it
add_view(tbl, rts, warns, a) ==
    IF view_check_raises(tbl, a.view)
    THEN [raised |-> "TypeError", routes |-> rts, warnings |-> warns]
    ELSE IF no_configs(tbl, a.view)
    THEN [raised |-> "", routes |-> rts,
          warnings |-> Append(warns, NoRouteWarning(tbl, a.view))]
    ELSE [raised |-> "", routes |-> RegisterConfigs(tbl, rts, 1, a),
          warnings |-> warns]

\* router.add_view(path, view, ...)
AddView(a) ==
    /\ regResult.n < MaxCalls
    /\ LET r == add_view(classes, routes, warnings, a)
       IN  /\ routes' = r.routes
           /\ warnings' = r.warnings
           /\ regResult' = [n |-> regResult.n + 1, call |-> "add_view", args |-> a,
                            before |-> routes, warned |-> Len(warnings), raised |-> r.raised,
                            returned |-> NoClass]
    /\ UNCHANGED <<classes, defError, reqs, instances>>

\* a decorator that does not hand the methods filter on to add_view: the
\* mutant
ViewDecoratorWithoutMethods(a) ==
    /\ regResult.n < MaxCalls
    /\ LET r == add_view(classes, routes, warnings, [a EXCEPT !.methods = NoneList])
       IN  /\ routes' = r.routes
           /\ warnings' = r.warnings
           /\ regResult' = [n |-> regResult.n + 1, call |-> "view", args |-> a,
                            before |-> routes, warned |-> Len(warnings), raised |-> r.raised,
                            returned |-> IF r.raised = "" THEN a.view ELSE NoClass]
    /\ UNCHANGED <<classes, defError, reqs, instances>>

\* router.view(path, ...)(view): the decorator calls add_view and returns the
\* class it was given; an error of add_view leaves it without returning
ViewDecorator(a) ==
    /\ regResult.n < MaxCalls
    /\ LET r == add_view(classes, routes, warnings, a)
       IN  /\ routes' = r.routes
           /\ warnings' = r.warnings
           /\ regResult' = [n |-> regResult.n + 1, call |-> "view", args |-> a,
                            before |-> routes, warned |-> Len(warnings), raised |-> r.raised,
                            returned |-> IF r.raised = "" THEN a.view ELSE NoClass]
    /\ UNCHANGED <<classes, defError, reqs, instances>>

\* the argument lists the registrations of the model are drawn from
MethodsArgs == {NoneList, <<>>, <<"get">>, <<"GET">>, <<"Get", "post">>,
                <<"DELETE", "trace">>}

TaggedOptions == [DefaultOptions EXCEPT !.tags = "items", !.deprecated = TRUE]

RegArg(path, view, methods, name_prefix, options) ==
    [path |-> path, view |-> view, methods |-> methods,
     name_prefix |-> name_prefix, options |-> options]

NoArgs == RegArg("", NoClass, NoneList, NoneStr, DefaultOptions)

\* every methods argument on the views that have routes, with the other
\* options left out; and, without a methods argument, every view under every
\* name_prefix and under another path with other documentation options
RegArgs(tbl) ==
    {RegArg("/items", v, m, NoneStr, DefaultOptions) :
         v \in {c \in DOMAIN tbl : tbl[c].meta.configs # <<>>}, m \in MethodsArgs}
    \cup {RegArg("/items", v, NoneList, n, DefaultOptions) :
         v \in DOMAIN tbl, n \in {NoneStr, "", "api"}}
    \cup {RegArg("/items/{item_id}", v, NoneList, NoneStr, TaggedOptions) :
         v \in DOMAIN tbl}

\* the class table once BaseView is defined
InitClasses == ViewMeta_new(<<>>, BaseViewBody).classes

RECURSIVE DefineAll(_, _)
\* the class table after the class statements of `bodies`, in order
DefineAll(tbl, bodies) ==
    IF bodies = <<>> THEN tbl
    ELSE DefineAll(ViewMeta_new(tbl, Head(bodies)).classes, Tail(bodies))

Body(name, base, fields, hook, methods) ==
    [name |-> name, base |-> base, mixin |-> NoClass,
     annotations |-> fields.annotations,
     attrs |-> fields.attrs, funcs |-> hook \o methods]

\* class ItemView(BaseView): name = ""; delete (204), get and post (201);
\* class ChildView(ItemView): limit, token, name = "items", a hook, get;
\* class EmptyView(BaseView): no verb method;
\* class OtherRoot(metaclass=ViewMeta): a root beside BaseView, with a get
RegClasses ==
    DefineAll(InitClasses,
        <<Body("ItemView", BaseViewId,
               [annotations |-> <<>>, attrs |-> <<Item("name", "")>>], NoHook,
               <<Item("delete", PagedMethod("delete")), Item("get", QueryMethod("get")),
                 Item("post", CreateMethod("post"))>>),
          Body("ChildView", 2,
               [annotations |-> <<Item("limit", "'int'"), Item("token", "'str'")>>,
                attrs |-> <<Item("limit", "10"), Item("name", "items")>>],
               LangHook, <<Item("get", PlainMethod("get"))>>),
          Body("EmptyView", BaseViewId, NoFields, UserHook, <<>>),
          Body("OtherRoot", NoClass, NoFields, NoHook,
               <<Item("get", PlainMethod("get"))>>)>>)

InitReg ==
    /\ classes = RegClasses
    /\ defError = ""
    /\ routes = <<>>
    /\ warnings = <<>>
    /\ regResult = [n |-> 0, call |-> "", args |-> NoArgs, before |-> <<>>,
                    warned |-> 0, raised |-> "", returned |-> NoClass]
    /\ reqs = <<>>
    /\ instances = <<>>

NextReg ==
    \/ \E a \in RegArgs(classes) : AddView(a)
    \/ \E a \in RegArgs(classes) : ViewDecorator(a)

\* the registrations alone, on a router of three views
SpecReg == InitReg /\ [][NextReg]_vars

-----------------------------------------------------------------------------
(* The synthesized endpoint at request time.                               *)
(*                                                                         *)
(* An invocation is a coroutine: pc names the statement it is at           *)
(* ("construct", "prepare", "method") or how it ended ("returned",         *)
(* "raised"); inside says that the coroutine it awaits there has started   *)
(* and not yet finished.  log lists what the invocation has done, with the *)
(* keyword arguments each stage was called with.                           *)

NoResult == "<no result>"
NoInstance == 0

\* the names of a parameter list
ParamNames(ps) == {ps[i].name : i \in DOMAIN ps}

\* the keyword arguments that are the whole mapping: the mutant
StageArgsAll(ps, kwargs) == kwargs

\* {p.name: kwargs[p.name] for p in ps}, when every name is a key of kwargs
StageArgs(ps, kwargs) ==
    [i \in DOMAIN ps |-> Item(ps[i].name, Get(kwargs, ps[i].name, Empty))]

\* kwargs[p.name] raises KeyError for some p
StageArgsRaise(ps, kwargs) == \E i \in DOMAIN ps : ~HasKey(kwargs, ps[i].name)

\* calling f(self, **kw) raises TypeError: a keyword that f takes by no
\* name, or a parameter without default that gets no value
CallRaises(f, kw) ==
    \/ /\ \A i \in DOMAIN f.params : f.params[i].kind # "VAR_KEYWORD"
       /\ \E k \in Keys(kw) :
              \A i \in DOMAIN f.params :
                  \/ f.params[i].name # k
                  \/ f.params[i].kind \notin {"POSITIONAL_OR_KEYWORD", "KEYWORD_ONLY"}
    \/ \E i \in DOMAIN f.params :
           /\ i > 1
           /\ f.params[i].kind \in
                  {"POSITIONAL_ONLY", "POSITIONAL_OR_KEYWORD", "KEYWORD_ONLY"}
           /\ f.params[i].default = Empty
           /\ f.params[i].name \notin Keys(kw)

\* the order of the stages with hook and verb method exchanged: the mutant
FollowingSwapped(stage) ==
    CASE stage = "construct" -> "method"
      [] stage = "method" -> "prepare"
      [] OTHER -> "returned"

\* the statement of the endpoint that follows a stage that returned
Following(stage) ==
    CASE stage = "construct" -> "prepare"
      [] stage = "prepare" -> "method"
      [] OTHER -> "returned"

\* an endpoint that goes on after a failed hook: the mutant
RaiseUnlessHook(req, stage, error) ==
    IF stage = "prepare"
    THEN [req EXCEPT !.pc = Following(stage), !.inside = FALSE]
    ELSE [req EXCEPT !.pc = "raised", !.inside = FALSE, !.error = error]

\* an endpoint that catches the error of a stage and runs the stage again:
\* the mutant
RaiseAndRetry(req, stage, error) == [req EXCEPT !.inside = FALSE]

\* an error raised in a stage: the endpoint has no try, the error leaves it
Raise(req, stage, error) ==
    [req EXCEPT !.pc = "raised", !.inside = FALSE, !.error = error]

\* one instance per view class, reused by every invocation: the mutant
InstanceSlotPerClass(insts, c) ==
    IF \E k \in DOMAIN insts : insts[k].cls = c
    THEN CHOOSE k \in DOMAIN insts : insts[k].cls = c
    ELSE Len(insts) + 1

\* cls(...) makes a new object: the place of the instance among the instances
InstanceSlot(insts, c) == Len(insts) + 1

\* BaseView.__init__(self, request, **kwargs): the attributes of the instance
BaseView_init(kw) ==
    Update(<<Item("request", Get(kw, "request", Empty))>>,
           SelectSeq(kw, LAMBDA it : it.name # "request"))

Event(stage, args) == [stage |-> stage, args |-> args]

EndpointOf(req) == classes[req.ep[1]].meta.configs[req.ep[2]].endpoint

\* endpoint(**kwargs): the call makes the coroutine, which has not run yet
Call(ep, kwargs, tag) ==
    /\ Len(reqs) < MaxReqs
    /\ reqs' = Append(reqs,
           [ep |-> ep, kwargs |-> kwargs, tag |-> tag, pc |-> "construct",
            inside |-> FALSE, instance |-> NoInstance, log |-> <<>>,
            thrown |-> Event("", ""), error |-> "",
            returned |-> NoResult, result |-> NoResult, wrote |-> <<>>])
    /\ UNCHANGED <<classes, defError, routes, warnings, regResult, instances>>

\* instance = cls(**{p.name: kwargs[p.name] for p in class_params})
Construct(r) ==
    LET req == reqs[r]
        e == EndpointOf(req)
        args == StageArgs(e.class_params, req.kwargs)
        slot == InstanceSlot(instances, e.cls)
        logged == [req EXCEPT !.log = Append(@, Event("construct", args))]
    IN  /\ req.pc = "construct"
        /\ IF StageArgsRaise(e.class_params, req.kwargs)
           THEN /\ reqs' = [reqs EXCEPT ![r] =
                       Raise([req EXCEPT !.thrown = Event("construct", "KeyError")],
                             "construct", "KeyError")]
                /\ UNCHANGED instances
           ELSE IF ~HasKey(args, "request")
           THEN /\ reqs' = [reqs EXCEPT ![r] =
                       Raise([logged EXCEPT !.thrown = Event("construct", "TypeError")],
                             "construct", "TypeError")]
                /\ UNCHANGED instances
           ELSE /\ instances' =
                       [k \in DOMAIN instances \cup {slot} |->
                           IF k = slot
                           THEN [cls |-> e.cls, attrs |-> BaseView_init(args)]
                           ELSE instances[k]]
                /\ reqs' = [reqs EXCEPT ![r] =
                       [logged EXCEPT !.instance = slot,
                                      !.wrote = BaseView_init(args),
                                      !.pc = Following("construct")]]
        /\ UNCHANGED <<classes, defError, routes, warnings, regResult>>

\* the start of a stage that awaits a method of the instance: the keyword
\* arguments are built and the method is called
StartStage(r, stage, f, ps) ==
    LET req == reqs[r]
        args == StageArgs(ps, req.kwargs)
    IN  /\ req.pc = stage /\ ~req.inside
        /\ reqs' = [reqs EXCEPT ![r] =
               IF StageArgsRaise(ps, req.kwargs)
               THEN Raise([req EXCEPT !.thrown = Event(stage, "KeyError")],
                          stage, "KeyError")
               ELSE IF CallRaises(f, args)
               THEN Raise([req EXCEPT !.log = Append(@, Event(stage, args)),
                                      !.thrown = Event(stage, "TypeError")],
                          stage, "TypeError")
               ELSE [req EXCEPT !.log = Append(@, Event(stage, args)),
                                !.inside = TRUE]]
        /\ UNCHANGED <<classes, defError, routes, warnings, regResult, instances>>

\* await instance.__prepare__(**{p.name: kwargs[p.name] for p in prepare_params})
PrepareStart(r) ==
    /\ reqs[r].pc = "prepare"
    /\ StartStage(r, "prepare",
                  GetFunc(classes, instances[reqs[r].instance].cls, "__prepare__"),
                  EndpointOf(reqs[r]).prepare_params)

\* the hook returns: the inherited hook does nothing, a hook of the
\* application may have set attributes of the instance (here self.user)
PrepareReturns(r) ==
    LET req == reqs[r]
        hook == GetFunc(classes, instances[req.instance].cls, "__prepare__")
        value == "user of " \o req.tag
    IN  /\ req.pc = "prepare" /\ req.inside
        /\ instances' =
               IF hook.body = "pass" THEN instances
               ELSE [instances EXCEPT ![req.instance].attrs = SetItem(@, "user", value)]
        /\ reqs' = [reqs EXCEPT ![r] =
               [req EXCEPT !.log = Append(@, Event("prepare.done", <<>>)),
                           !.wrote = IF hook.body = "pass" THEN @
                                     ELSE SetItem(@, "user", value),
                           !.inside = FALSE,
                           !.pc = Following("prepare")]]
        /\ UNCHANGED <<classes, defError, routes, warnings, regResult>>

\* a hook of the application raises (an HTTPException, say)
PrepareRaises(r, error) ==
    LET req == reqs[r]
        hook == GetFunc(classes, instances[req.instance].cls, "__prepare__")
    IN  /\ req.pc = "prepare" /\ req.inside
        /\ hook.body # "pass"
        /\ reqs' = [reqs EXCEPT ![r] =
               Raise([req EXCEPT !.thrown = Event("prepare", error)], "prepare", error)]
        /\ UNCHANGED <<classes, defError, routes, warnings, regResult, instances>>

\* return await func(instance, **{p.name: kwargs[p.name] for p in params})
MethodStart(r) ==
    /\ reqs[r].pc = "method"
    /\ StartStage(r, "method", EndpointOf(reqs[r]).func, EndpointOf(reqs[r]).params)

\* "return await func(...)": the endpoint returns what the method returned
Returned(value) == value

\* the verb method returns a value; it may have set attributes of the
\* instance on its way (here self.seen)
MethodReturns(r) ==
    LET req == reqs[r]
        value == "result of " \o EndpointOf(req).name \o " for " \o req.tag
        seen == "seen by " \o req.tag
    IN  /\ req.pc = "method" /\ req.inside
        /\ instances' = [instances EXCEPT ![req.instance].attrs = SetItem(@, "seen", seen)]
        /\ reqs' = [reqs EXCEPT ![r] =
               [req EXCEPT !.log = Append(@, Event("method.done", <<>>)),
                           !.wrote = SetItem(@, "seen", seen),
                           !.inside = FALSE,
                           !.returned = value,
                           !.result = Returned(value),
                           !.pc = Following("method")]]
        /\ UNCHANGED <<classes, defError, routes, warnings, regResult>>

\* the verb method raises
MethodRaises(r, error) ==
    LET req == reqs[r]
    IN  /\ req.pc = "method" /\ req.inside
        /\ reqs' = [reqs EXCEPT ![r] =
               Raise([req EXCEPT !.thrown = Event("method", error)], "method", error)]
        /\ UNCHANGED <<classes, defError, routes, warnings, regResult, instances>>

\* the values of the keyword arguments of the n-th invocation carry its tag
Tags == <<"a", "b", "c", "d">>

KwItem(name, tag) == Item(name, name \o "=" \o tag)

Last(s) == s[Len(s)]

\* the keyword mappings an endpoint is called with: what the router binds
\* (every name of the signature) with a key of no parameter beside, and the
\* mappings of a direct caller that leaves out the last name of one source
KwargsFor(e, tag) ==
    LET bound == [i \in DOMAIN e.signature |-> KwItem(e.signature[i].name, tag)]
        without(ps) == SelectSeq(bound, LAMBDA it : it.name # Last(ps).name)
    IN  {Append(bound, KwItem("unused", tag))}
        \cup {without(ps) : ps \in {e.class_params, e.prepare_params, e.params} \ {<<>>}}

UserErrors == {"HTTPException(401)"}

\* class PingView(BaseView): get(), under the inherited hook;
\* class ItemView(PingView): token: str; a hook taking user_id;
\*     post(body, *args, **kwargs), 201; get is inherited
ReqClasses ==
    DefineAll(InitClasses,
        <<Body("PingView", BaseViewId, NoFields, NoHook,
               <<Item("get", PlainMethod("get"))>>),
          Body("ItemView", 2,
               [annotations |-> <<Item("token", "'str'")>>, attrs |-> <<>>],
               UserHook, <<Item("post", CreateMethod("post"))>>)>>)

-----------------------------------------------------------------------------
(* The state after import: BaseView is defined, the router is empty.       *)

Init ==
    /\ classes = InitClasses
    /\ defError = ""
    /\ routes = <<>>
    /\ warnings = <<>>
    /\ regResult = [n |-> 0, call |-> "", args |-> NoArgs, before |-> <<>>,
                    warned |-> 0, raised |-> "", returned |-> NoClass]
    /\ reqs = <<>>
    /\ instances = <<>>

\* a class statement: class <name>(<base>): <body>
DefineClass(body) ==
    /\ Len(classes) <= MaxClasses
    /\ LET r == ViewMeta_new(classes, body)
       IN  /\ classes' = r.classes
           /\ defError' = r.error
    /\ UNCHANGED <<routes, warnings, regResult, reqs, instances>>

NextDef == \E body \in Bodies(classes, BodyShapes) : DefineClass(body)

\* the class statements alone
SpecDef == Init /\ [][NextDef]_vars

\* class statements over the bodies with deferred annotations
NextHints == \E body \in Bodies(classes, HintShapes) : DefineClass(body)

SpecHints == Init /\ [][NextHints]_vars

\* a class statement without bases and without metaclass: type.__new__ alone
DefinePlain(body) ==
    /\ Len(classes) <= MaxClasses
    /\ body.name \notin {classes[k].name : k \in DOMAIN classes}
    /\ classes' = Append(classes, NewClass(body))
    /\ defError' = ""
    /\ UNCHANGED <<routes, warnings, regResult, reqs, instances>>

NextInherit ==
    \/ \E body \in PlainBodies : DefinePlain(body)
    \/ \E body \in MixinBodies(classes, InheritShapes) : DefineClass(body)

\* class statements of view hierarchies: subclasses and mixins
SpecInherit == Init /\ [][NextInherit]_vars

InitReq ==
    /\ classes = ReqClasses
    /\ defError = ""
    /\ routes = <<>>
    /\ warnings = <<>>
    /\ regResult = [n |-> 0, call |-> "", args |-> NoArgs, before |-> <<>>,
                    warned |-> 0, raised |-> "", returned |-> NoClass]
    /\ reqs = <<>>
    /\ instances = <<>>

NextReq ==
    \/ \E ep \in UNION {{<<c, i>> : i \in DOMAIN classes[c].meta.configs} :
                           c \in DOMAIN classes} :
           \E kwargs \in KwargsFor(classes[ep[1]].meta.configs[ep[2]].endpoint,
                                   Tags[Len(reqs) + 1]) :
               Call(ep, kwargs, Tags[Len(reqs) + 1])
    \/ \E r \in DOMAIN reqs : Construct(r)
    \/ \E r \in DOMAIN reqs : PrepareStart(r)
    \/ \E r \in DOMAIN reqs : PrepareReturns(r)
    \/ \E r \in DOMAIN reqs : \E error \in UserErrors : PrepareRaises(r, error)
    \/ \E r \in DOMAIN reqs : MethodStart(r)
    \/ \E r \in DOMAIN reqs : MethodReturns(r)
    \/ \E r \in DOMAIN reqs : \E error \in UserErrors : MethodRaises(r, error)

\* the invocations alone, of the endpoints of two views, interleaved
SpecReq == InitReq /\ [][NextReq]_vars

\* the operations of one run of the whole system: class statements that
\* made a class, registrations and endpoint invocations
MaxOps == 4

Ops == (Len(classes) - 1) + regResult.n + Len(reqs)

\* token: str
TokenFields == [annotations |-> <<Item("token", "'str'")>>, attrs |-> <<>>]

\* the class bodies of the whole-system runs: a view with a get, and a view
\* with a field, a hook and a post (201)
SystemShapes ==
    {<<NoFields, NoHook, <<Item("get", PlainMethod("get"))>>>>,
     <<TokenFields, UserHook, <<Item("post", CreateMethod("post"))>>>>}

\* add_view("/items", view) for a class of the table
SystemRegArgs(views) ==
    {RegArg("/items", v, NoneList, NoneStr, DefaultOptions) : v \in views}

\* the keyword mapping the router binds: every name of the signature
SystemKwargs(e, tag) ==
    [i \in DOMAIN e.signature |-> KwItem(e.signature[i].name, tag)]

\* class statements, registrations and invocations in any order: a class is
\* registered by add_view at any time after its definition, the decorator
\* form is applied to the class just defined
Next ==
    \/ /\ Ops < MaxOps
       /\ \E body \in Bodies(classes, SystemShapes) : DefineClass(body)
    \/ /\ Ops < MaxOps
       /\ \E a \in SystemRegArgs(DOMAIN classes) : AddView(a)
    \/ /\ Ops < MaxOps
       /\ \E a \in SystemRegArgs({Len(classes)}) : ViewDecorator(a)
    \/ /\ Ops < MaxOps
       /\ \E ep \in UNION {{<<c, i>> : i \in DOMAIN classes[c].meta.configs} :
                               c \in DOMAIN classes} :
              Call(ep, SystemKwargs(classes[ep[1]].meta.configs[ep[2]].endpoint,
                                    Tags[Len(reqs) + 1]),
                   Tags[Len(reqs) + 1])
    \/ \E r \in DOMAIN reqs : Construct(r)
    \/ \E r \in DOMAIN reqs : PrepareStart(r)
    \/ \E r \in DOMAIN reqs : PrepareReturns(r)
    \/ \E r \in DOMAIN reqs : \E error \in UserErrors : PrepareRaises(r, error)
    \/ \E r \in DOMAIN reqs : MethodStart(r)
    \/ \E r \in DOMAIN reqs : MethodReturns(r)
    \/ \E r \in DOMAIN reqs : \E error \in UserErrors : MethodRaises(r, error)

\* the whole system: definitions, registrations and invocations interleaved
Spec == Init /\ [][Next]_vars

\* class bodies that write their verb methods in another order than
\* HTTP_METHODS, or add verbs to those of a base
OrderShapes ==
    {NoFields} \X {NoHook}
        \X {<<Item("options", CreateMethod("options"))>>,
            <<Item("post", CreateMethod("post")), Item("get", PlainMethod("get"))>>,
            <<Item("delete", PagedMethod("delete")), Item("get", QueryMethod("get")),
              Item("post", CreateMethod("post"))>>,
            <<Item("options", PlainMethod("options")), Item("head", PlainMethod("head")),
              Item("delete", PlainMethod("delete")), Item("patch", PlainMethod("patch")),
              Item("put", PlainMethod("put")), Item("post", PlainMethod("post")),
              Item("get", PlainMethod("get"))>>}

\* add_view("/items", view) and add_view("/items", view, methods=[...]) with
\* the verbs listed in another order than HTTP_METHODS
OrderRegArgs(views) ==
    {RegArg("/items", v, m, NoneStr, DefaultOptions) :
         v \in views, m \in {NoneList, <<"POST", "head", "get">>}}

NextOrder ==
    \/ /\ Ops < MaxOps
       /\ \E body \in Bodies(classes, OrderShapes) : DefineClass(body)
    \/ /\ Ops < MaxOps
       /\ \E a \in OrderRegArgs({Len(classes)}) : AddView(a)

\* class statements, each class registered once or more after its definition
SpecOrder == Init /\ [][NextOrder]_vars

-----------------------------------------------------------------------------
(* Properties of the class statements.                                     *)

Verbs == Range(HTTP_METHODS)

\* every config of every class of the table
AllConfigs ==
    UNION {{<<c, i>> : i \in DOMAIN classes[c].meta.configs} : c \in DOMAIN classes}

Config(ci) == classes[ci[1]].meta.configs[ci[2]]

\* the verbs some class of c's chain of bases defines as a method
DefinedVerbs(c) ==
    {v \in Verbs : \E k \in Range(MRO(classes, c)) : HasKey(classes[k].funcs, v)}

\* C3: a class's configs list has exactly one entry per verb defined as a
\* method on it (own or inherited), N entries for N verbs, each naming one of
\* the seven verbs; BaseView and a class without verb methods have none.
C3_OneConfigPerVerb ==
    \A c \in DOMAIN classes :
        LET configs == classes[c].meta.configs
        IN  /\ Len(configs) = Cardinality(DefinedVerbs(c))
            /\ {configs[i].method_name : i \in DOMAIN configs} = DefinedVerbs(c)
            /\ \A i \in DOMAIN configs : configs[i].method_name \in Verbs
            /\ (c = BaseViewId \/ DefinedVerbs(c) = {}) => configs = <<>>

\* a subclass with several verbs, one of them inherited only
C3_Witness ==
    \E c \in DOMAIN classes :
        /\ classes[c].base # BaseViewId /\ c # BaseViewId
        /\ Len(classes[c].meta.configs) >= 2
        /\ \E v \in DefinedVerbs(c) : ~HasKey(classes[c].funcs, v)

HasDefault(p) == p.default # Empty
NoDefault(p) == p.default = Empty

\* C4: an endpoint's signature is class_params + prepare_params +
\* method_params with the parameters without a default first and those with
\* one after, each group in the order of the concatenation.
C4_RequiredFirstStable ==
    \A ci \in AllConfigs :
        LET e == Config(ci).endpoint
            func == GetFunc(classes, ci[1], Config(ci).method_name)
            hook == GetFunc(classes, ci[1], "__prepare__")
            merged == extract_class_params(classes, ci[1])
                        \o extract_func_params(hook) \o extract_func_params(func)
        IN  /\ e.signature = SelectSeq(merged, NoDefault) \o SelectSeq(merged, HasDefault)
            /\ \A i, j \in DOMAIN e.signature :
                   (NoDefault(e.signature[i]) /\ HasDefault(e.signature[j])) => i < j

\* an endpoint whose three sources all contribute and whose signature is
\* not the plain concatenation
C4_Witness ==
    \E ci \in AllConfigs :
        LET e == Config(ci).endpoint
        IN  /\ Len(e.class_params) >= 2 /\ e.prepare_params # <<>> /\ e.params # <<>>
            /\ e.signature # e.class_params \o e.prepare_params \o e.params
            /\ \E i \in DOMAIN e.params : HasDefault(e.params[i])
            /\ \E i \in DOMAIN e.params : NoDefault(e.params[i])

\* the function as it was before any marker was put on it
Unmarked(f) == [f EXCEPT !.attrs = <<>>]

StatusCodes == {201, 204}

\* C10: the config of a verb method marked status_code(c) has status_code c,
\* the config of an unmarked verb method has status_code None, verb by verb.
C10_StatusCodeOfMarker ==
    \A ci \in AllConfigs :
        LET func == GetFunc(classes, ci[1], Config(ci).method_name)
        IN  /\ \A code \in StatusCodes :
                   func = status_code(code, Unmarked(func))
                       => Config(ci).status_code = code
            /\ func = Unmarked(func) => Config(ci).status_code = NoneInt

\* one class with a verb marked 201, a verb marked 204 and an unmarked verb
C10_Witness ==
    \E c \in DOMAIN classes :
        LET configs == classes[c].meta.configs
        IN  {configs[i].status_code : i \in DOMAIN configs} = {201, 204, NoneInt}

-----------------------------------------------------------------------------
(* Properties of the registrations.  regResult holds the latest call: its  *)
(* arguments, the routes before it and what it raised.                     *)

Called == regResult.n > 0

\* the routes the latest call added
NewRoutes == SubSeq(routes, Len(regResult.before) + 1, Len(routes))

\* the latest call kept the routes that were there
KeptRoutes ==
    /\ Len(routes) >= Len(regResult.before)
    /\ SubSeq(routes, 1, Len(regResult.before)) = regResult.before

\* two names are the same but for the case of their letters
SameIgnoringCase(x, y) == upper(x) = upper(y)

\* C7: with a methods filter (a list naming at least one verb), add_view
\* registers one route for each config whose verb is in the list, compared
\* without regard to case, in the order of the configs, and none for the
\* other verbs of the view.
C7_MethodsFilter ==
    (Called /\ regResult.raised = "" /\ TruthyList(regResult.args.methods)) =>
        LET a == regResult.args
            named(config) ==
                \E m \in Range(a.methods) : SameIgnoringCase(m, config.method_name)
            kept == SelectSeq(classes[a.view].meta.configs, named)
        IN  /\ KeptRoutes
            /\ Len(NewRoutes) = Len(kept)
            /\ \A i \in DOMAIN kept :
                   /\ NewRoutes[i].endpoint = kept[i].endpoint
                   /\ NewRoutes[i].methods = {upper(kept[i].method_name)}

\* a view of three verbs registered with methods=["Get", "post"]: two routes
C7_Witness ==
    /\ Called /\ regResult.raised = ""
    /\ regResult.args.methods = <<"Get", "post">>
    /\ Len(classes[regResult.args.view].meta.configs) = 3
    /\ Len(NewRoutes) = 2

\* C8: add_view with a class that is no subclass of BaseView raises
\* TypeError and leaves the routes of the router as they were.
C8_NonViewRejected ==
    (Called /\ BaseViewId \notin Range(MRO(classes, regResult.args.view))) =>
        /\ regResult.raised = "TypeError"
        /\ routes = regResult.before
        /\ Len(warnings) = regResult.warned

\* a registration of the class that is no view, on a router that has routes
C8_Witness ==
    /\ Called /\ regResult.before # <<>>
    /\ classes[regResult.args.view].name = "OtherRoot"
    /\ regResult.raised = "TypeError"

\* C9: add_view with a view whose configs list is empty emits a warning,
\* raises nothing and leaves the routes of the router as they were.
C9_EmptyViewWarns ==
    (/\ Called
     /\ BaseViewId \in Range(MRO(classes, regResult.args.view))
     /\ classes[regResult.args.view].meta.configs = <<>>) =>
        /\ regResult.raised = ""
        /\ routes = regResult.before
        /\ Len(warnings) = regResult.warned + 1
        /\ warnings[Len(warnings)] = NoRouteWarning(classes, regResult.args.view)

\* a registration of the view without verb methods, on a router with routes
C9_Witness ==
    /\ Called /\ regResult.before # <<>>
    /\ classes[regResult.args.view].name = "EmptyView"
    /\ Len(warnings) = regResult.warned + 1

-----------------------------------------------------------------------------
(* Properties of the invocations.                                          *)

Stages(req) == [i \in DOMAIN req.log |-> req.log[i].stage]

IsPrefix(s, t) == Len(s) <= Len(t) /\ s = SubSeq(t, 1, Len(s))

\* what a whole invocation does, in order
FullRun == <<"construct", "prepare", "prepare.done", "method", "method.done">>

\* C1: in every invocation the stages run in the order construct, hook,
\* verb method: the hook starts only on a constructed instance and the verb
\* method starts only after the hook has finished.
C1_StagesInOrder ==
    \A r \in DOMAIN reqs :
        /\ IsPrefix(Stages(reqs[r]), FullRun)
        /\ \A i \in DOMAIN reqs[r].log :
               /\ reqs[r].log[i].stage = "method" =>
                      \E j \in 1..(i - 1) : reqs[r].log[j].stage = "prepare.done"
               /\ reqs[r].log[i].stage = "prepare" =>
                      /\ \E j \in 1..(i - 1) : reqs[r].log[j].stage = "construct"
                      /\ reqs[r].instance # NoInstance

\* one invocation has run all its stages while another is inside its hook
C1_Witness ==
    \E r, q \in DOMAIN reqs :
        /\ r # q
        /\ reqs[r].pc = "returned" /\ Stages(reqs[r]) = FullRun
        /\ reqs[q].pc = "prepare" /\ reqs[q].inside

\* C2: when the construction or the hook of an invocation raises, its verb
\* method is never executed and the caller gets that very error.
C2_FailureSkipsMethod ==
    \A r \in DOMAIN reqs :
        reqs[r].thrown.stage \in {"construct", "prepare"} =>
            /\ reqs[r].pc = "raised"
            /\ reqs[r].error = reqs[r].thrown.args
            /\ \A i \in DOMAIN reqs[r].log :
                   reqs[r].log[i].stage \notin {"method", "method.done"}
            /\ reqs[r].returned = NoResult /\ reqs[r].result = NoResult

\* one invocation ended by its hook raising, one by its construction raising
C2_Witness ==
    \E r, q \in DOMAIN reqs :
        /\ reqs[r].thrown = Event("prepare", "HTTPException(401)")
        /\ reqs[r].pc = "raised"
        /\ reqs[q].thrown = Event("construct", "KeyError")
        /\ reqs[q].pc = "raised"

\* the entries of a mapping whose keys are among the names
Entries(kwargs, names) == {kwargs[i] : i \in {j \in DOMAIN kwargs : kwargs[j].name \in names}}

\* the arguments a stage of the invocation was called with: those logged
PassedTo(req, stage) ==
    {req.log[i].args : i \in {j \in DOMAIN req.log : req.log[j].stage = stage}}

\* C5: the constructor gets exactly the entries of the mapping named by
\* class_params, the hook those named by prepare_params, the verb method
\* those named by method_params; the instance holds the request and every
\* class-level value under its name; the endpoint returns what the verb
\* method returned.
C5_ArgumentsByStage ==
    \A r \in DOMAIN reqs :
        LET req == reqs[r]
            c == req.ep[1]
            config == classes[c].meta.configs[req.ep[2]]
            class_names == ParamNames(extract_class_params(classes, c))
            prepare_names ==
                ParamNames(extract_func_params(GetFunc(classes, c, "__prepare__")))
            method_names ==
                ParamNames(extract_func_params(GetFunc(classes, c, config.method_name)))
        IN  /\ \A a \in PassedTo(req, "construct") :
                   Range(a) = Entries(req.kwargs, class_names)
            /\ \A a \in PassedTo(req, "prepare") :
                   Range(a) = Entries(req.kwargs, prepare_names)
            /\ \A a \in PassedTo(req, "method") :
                   Range(a) = Entries(req.kwargs, method_names)
            /\ req.instance # NoInstance =>
                   /\ instances[req.instance].cls = c
                   /\ Entries(req.kwargs, class_names)
                          \subseteq Range(instances[req.instance].attrs)
                   /\ HasKey(instances[req.instance].attrs, "request")
            /\ req.pc = "returned" =>
                   /\ req.returned # NoResult
                   /\ req.result = req.returned

\* an invocation that returned, called with a key of no parameter and with
\* arguments for all three stages
C5_Witness ==
    \E r \in DOMAIN reqs :
        /\ reqs[r].pc = "returned"
        /\ HasKey(reqs[r].kwargs, "unused")
        /\ \A stage \in {"construct", "prepare", "method"} :
               \E a \in PassedTo(reqs[r], stage) : a # <<>>
        /\ Len(reqs[r].log[1].args) >= 2

\* C6: every invocation constructs an instance of its own: no two
\* invocations share one, and at every moment the attributes of an
\* invocation's instance are those its own constructor, hook and verb
\* method have set, whatever the other invocations did meanwhile.
C6_InstancePerInvocation ==
    /\ \A r, q \in DOMAIN reqs :
           (r # q /\ reqs[r].instance # NoInstance) =>
               reqs[r].instance # reqs[q].instance
    /\ \A r \in DOMAIN reqs :
           reqs[r].instance # NoInstance =>
               /\ reqs[r].instance \in DOMAIN instances
               /\ instances[reqs[r].instance].attrs = reqs[r].wrote
    /\ Len(instances) = Cardinality({r \in DOMAIN reqs : reqs[r].instance # NoInstance})

\* two invocations of one view, of different verbs, both with an instance
\* that their hooks have written to
C6_Witness ==
    \E r, q \in DOMAIN reqs :
        /\ r # q
        /\ reqs[r].ep[1] = reqs[q].ep[1] /\ reqs[r].ep[2] # reqs[q].ep[2]
        /\ reqs[r].instance # NoInstance /\ reqs[q].instance # NoInstance
        /\ HasKey(instances[reqs[r].instance].attrs, "user")
        /\ HasKey(instances[reqs[q].instance].attrs, "seen")

-----------------------------------------------------------------------------
(* Properties of the whole system.                                         *)

\* C11: once a view class is constructed its configs list never changes:
\* no class statement, registration or step of an invocation adds, removes,
\* reorders or alters an entry of the configs of a class already in the table.
C11_ConfigsNeverChange ==
    [][\A c \in DOMAIN classes :
          /\ c \in DOMAIN classes'
          /\ classes'[c].meta.configs = classes[c].meta.configs]_vars

\* a view with configs of which a subclass was defined afterwards, which
\* was registered and one of whose endpoints ran to its end
C11_Witness ==
    \E c, d \in DOMAIN classes :
        /\ c # BaseViewId /\ classes[d].base = c
        /\ classes[c].meta.configs # <<>>
        /\ \E i \in DOMAIN routes : routes[i].endpoint.cls = c
        /\ \E r \in DOMAIN reqs : reqs[r].ep[1] = c /\ reqs[r].pc = "returned"

-----------------------------------------------------------------------------
(* Properties of the merged parameter list.                                *)

\* C12: in the merged parameter list of every synthesized endpoint each
\* parameter name occurs at most once.
C12_NamesUnique ==
    \A ci \in AllConfigs :
        LET sig == Config(ci).endpoint.signature
        IN  \A i, j \in DOMAIN sig : sig[i].name = sig[j].name => i = j

\* an endpoint merged from three non-empty sources, and a class statement
\* after it that the signature construction rejected
C12_Witness ==
    /\ defError = "ValueError"
    /\ \E ci \in AllConfigs :
           LET e == Config(ci).endpoint
           IN  e.class_params # <<>> /\ e.prepare_params # <<>> /\ e.params # <<>>

\* the class statements that can be executed next
NextBodies ==
    IF Len(classes) <= MaxClasses THEN Bodies(classes, BodyShapes) ELSE {}

\* the class table with the class of the body in it, before any introspection
WithClass(tbl, body) == Append(tbl, NewClass(body))

\* the verbs the class of the body has as methods
BodyVerbs(tbl, body) ==
    {v \in Verbs : /\ hasattr(WithClass(tbl, body), Len(tbl) + 1, v)
                   /\ IsFunction(WithClass(tbl, body), Len(tbl) + 1, v)}

\* class_params + prepare_params + method_params of verb v of the body
Concatenation(tbl, body, v) ==
    LET c == Len(tbl) + 1
        tbl1 == WithClass(tbl, body)
    IN  extract_class_params(tbl1, c)
            \o extract_func_params(GetFunc(tbl1, c, "__prepare__"))
            \o extract_func_params(GetFunc(tbl1, c, v))

\* a name stands in more than one of the three sources of verb v
Collides(tbl, body, v) ==
    LET ps == Concatenation(tbl, body, v)
    IN  \E i, j \in DOMAIN ps : i < j /\ ps[i].name = ps[j].name

\* the multiset of the names of a parameter list
NameCount(ps, n) == Cardinality({i \in DOMAIN ps : ps[i].name = n})

\* C13 as stated: when a name appears in more than one source of a verb,
\* the class definition completes, a config is produced for the verb and
\* its merged list keeps every occurrence.
C13_CollisionKept ==
    \A body \in NextBodies : \A v \in BodyVerbs(classes, body) :
        Collides(classes, body, v) =>
            LET r == ViewMeta_new(classes, body)
                c == Len(classes) + 1
            IN  /\ r.error = ""
                /\ Len(r.classes) = c
                /\ \E i \in DOMAIN r.classes[c].meta.configs :
                       LET cfg == r.classes[c].meta.configs[i]
                       IN  /\ cfg.method_name = v
                           /\ \A p \in Range(Concatenation(classes, body, v)) :
                                  NameCount(cfg.endpoint.signature, p.name)
                                      = NameCount(Concatenation(classes, body, v), p.name)

\* C13 amended: when a name appears in more than one source of a verb of a
\* class body, the class statement raises, the class is not defined and no
\* config is produced; the error is the ValueError of the signature
\* construction when every verb attribute of the body is a method.
C13_CollisionRejected ==
    \A body \in NextBodies :
        (\E v \in BodyVerbs(classes, body) : Collides(classes, body, v)) =>
            LET r == ViewMeta_new(classes, body)
                c == Len(classes) + 1
            IN  /\ r.error # ""
                /\ r.classes = classes
                /\ (\A v \in Verbs :
                        hasattr(WithClass(classes, body), c, v)
                            => IsFunction(WithClass(classes, body), c, v))
                       => r.error = "ValueError"

\* a class statement was rejected for a repeated name, and a class body
\* without a hook of its own collides through the hook it would inherit
C13_Witness ==
    /\ defError = "ValueError"
    /\ \E body \in NextBodies :
           /\ ~HasKey(body.funcs, "__prepare__")
           /\ body.base # BaseViewId
           /\ \E v \in BodyVerbs(classes, body) : Collides(classes, body, v)

-----------------------------------------------------------------------------
(* Properties of the parameter extraction.                                 *)

IsVariadic(p) == p.kind \in {"VAR_POSITIONAL", "VAR_KEYWORD"}

\* the parameters of f but self, the variadic ones and the underscore names
NonVariadic(f) ==
    SelectSeq(f.params, LAMBDA p : /\ p.name # "self"
                                   /\ ~IsVariadic(p)
                                   /\ ~StartsWith(p.name, "_"))

\* the names and defaults of a parameter list, in order
NamesAndDefaults(ps) == [i \in DOMAIN ps |-> <<ps[i].name, ps[i].default>>]

\* C14 as stated: extract_func_params returns the parameters of the
\* callable in declaration order without self, the variadic-positional and
\* variadic-keyword parameters and the underscore names, every other one
\* retained with its own default (checked on what the class statement
\* extracted from the hook and from each verb method).
C14_VariadicsRemoved ==
    \A ci \in AllConfigs :
        LET e == Config(ci).endpoint
            hook == GetFunc(classes, ci[1], "__prepare__")
        IN  /\ NamesAndDefaults(e.params) = NamesAndDefaults(NonVariadic(e.func))
            /\ NamesAndDefaults(e.prepare_params) = NamesAndDefaults(NonVariadic(hook))

\* the names annotated by some class of the method resolution order of c
AnnotatedNames(c) ==
    UNION {Keys(classes[k].annotations) : k \in Range(MRO(classes, c))}

\* C15: extract_class_params returns one parameter for every annotated
\* class-level name of the class and its ancestors except return and the
\* underscore names; its default is the value of the class attribute of that
\* name when the class has one (its own or inherited) and it is required
\* otherwise; request is among them.
C15_ClassParams ==
    \A ci \in AllConfigs :
        LET c == ci[1]
            ps == Config(ci).endpoint.class_params
        IN  /\ {ps[i].name : i \in DOMAIN ps}
                   = {n \in AnnotatedNames(c) : n # "return" /\ ~StartsWith(n, "_")}
            /\ \A i, j \in DOMAIN ps : ps[i].name = ps[j].name => i = j
            /\ \A i \in DOMAIN ps :
                   IF hasattr(classes, c, ps[i].name)
                   THEN /\ ps[i].default # Empty
                        /\ ps[i].default
                               = Get(classes[Owner(classes, c, ps[i].name)].attrs,
                                     ps[i].name, Empty)
                   ELSE ps[i].default = Empty
            /\ \E i \in DOMAIN ps : ps[i].name = "request"

\* a subclass with a required field, a field whose default is an attribute
\* it inherits, and an underscore field left out
C15_Witness ==
    \E ci \in AllConfigs :
        LET c == ci[1]
            ps == Config(ci).endpoint.class_params
        IN  /\ classes[c].base # BaseViewId
            /\ \E n \in AnnotatedNames(c) : StartsWith(n, "_")
            /\ \E i \in DOMAIN ps : ps[i].name # "request" /\ ps[i].default = Empty
            /\ \E i \in DOMAIN ps :
                   ps[i].default # Empty /\ ~HasKey(classes[c].attrs, ps[i].name)

\* C16: every parameter of class_params, prepare_params and method_params,
\* and so of every endpoint signature, is keyword-only whatever its kind in
\* the declaration.
C16_KeywordOnly ==
    \A ci \in AllConfigs :
        LET e == Config(ci).endpoint
        IN  \A ps \in {e.class_params, e.prepare_params, e.params, e.signature} :
                \A i \in DOMAIN ps : ps[i].kind = KEYWORD_ONLY

\* an endpoint whose hook declares a variadic parameter that is retained
\* and whose verb method declares positional-or-keyword and keyword-only ones
C16_Witness ==
    \E ci \in AllConfigs :
        LET e == Config(ci).endpoint
            hook == GetFunc(classes, ci[1], "__prepare__")
            declared(f, name) == {f.params[i].kind : i \in {j \in DOMAIN f.params :
                                                                f.params[j].name = name}}
        IN  /\ \E i \in DOMAIN e.prepare_params :
                   declared(hook, e.prepare_params[i].name) = {"VAR_POSITIONAL"}
            /\ \E i \in DOMAIN e.params :
                   declared(e.func, e.params[i].name) = {"POSITIONAL_OR_KEYWORD"}
            /\ \E i \in DOMAIN e.params :
                   declared(e.func, e.params[i].name) = {"KEYWORD_ONLY"}

-----------------------------------------------------------------------------
(* Properties of the annotation resolver.                                  *)

\* some annotation of the class or of one of its ancestors names a type
\* that does not exist at runtime
ClassUnresolvable(tbl, c) ==
    \E k \in Range(MRO(tbl, c)) : \E i \in DOMAIN tbl[k].annotations :
        EvalRaises(tbl[k].annotations[i].value)

\* some annotation of the callable names a type that does not exist at runtime
FuncUnresolvable(f) ==
    \/ \E i \in DOMAIN f.params : EvalRaises(f.params[i].annotation)
    \/ EvalRaises(f.returns)

\* the annotation of name n as written in the most-derived class of the
\* method resolution order of c that annotates it
RawClassAnnotation(tbl, c, n) ==
    LET mro == MRO(tbl, c)
        i == CHOOSE j \in DOMAIN mro :
                 /\ HasKey(tbl[mro[j]].annotations, n)
                 /\ \A h \in 1..(j - 1) : ~HasKey(tbl[mro[h]].annotations, n)
    IN  Get(tbl[mro[i]].annotations, n, Empty)

\* the annotation of parameter n as the callable declares it
DeclaredAnnotation(f, n) ==
    f.params[CHOOSE i \in DOMAIN f.params : f.params[i].name = n].annotation

\* every parameter of ps has the annotation its callable declares
AllDeclared(ps, f) ==
    \A i \in DOMAIN ps : ps[i].annotation = DeclaredAnnotation(f, ps[i].name)

\* every parameter of ps has the evaluated annotation of its callable
AllEvaluated(ps, f) ==
    \A i \in DOMAIN ps : ps[i].annotation = Eval(DeclaredAnnotation(f, ps[i].name))

\* the class bodies the next class statement may execute, of those with
\* deferred annotations
NextHintBodies ==
    IF Len(classes) <= MaxClasses THEN Bodies(classes, HintShapes) ELSE {}

\* a class body that names a type unavailable at runtime, or inherits one
BodyUnresolvable(tbl, body) ==
    \/ ClassUnresolvable(WithClass(tbl, body), Len(tbl) + 1)
    \/ \E i \in DOMAIN body.funcs : FuncUnresolvable(body.funcs[i].value)

\* C17: the resolver never raises: when evaluation fails the class gets the
\* raw annotations of its ancestor chain with the most-derived class applied
\* last, a callable its raw annotations; a class statement whose annotations
\* name a type unavailable at runtime succeeds.
C17_FallbackRaw ==
    /\ \A ci \in AllConfigs :
           LET e == Config(ci).endpoint
               hook == GetFunc(classes, ci[1], "__prepare__")
           IN  /\ ClassUnresolvable(classes, ci[1]) =>
                      \A i \in DOMAIN e.class_params :
                          e.class_params[i].annotation
                              = RawClassAnnotation(classes, ci[1], e.class_params[i].name)
               /\ FuncUnresolvable(hook) => AllDeclared(e.prepare_params, hook)
               /\ FuncUnresolvable(e.func) => AllDeclared(e.params, e.func)
    /\ \A body \in NextHintBodies :
           (/\ BodyUnresolvable(classes, body)
            /\ \A v \in Verbs :
                   hasattr(WithClass(classes, body), Len(classes) + 1, v)
                       => IsFunction(WithClass(classes, body), Len(classes) + 1, v)
            /\ \A v \in BodyVerbs(classes, body) : ~Collides(classes, body, v))
               => /\ ViewMeta_new(classes, body).error = ""
                  /\ Len(ViewMeta_new(classes, body).classes) = Len(classes) + 1

\* a constructed subclass that annotates anew, with another type, a field
\* whose annotation in its ancestor cannot be resolved
C17_Witness ==
    \E ci \in AllConfigs :
        LET c == ci[1]
            b == classes[c].base
        IN  /\ b # BaseViewId
            /\ \E n \in Keys(classes[c].annotations) \cap Keys(classes[b].annotations) :
                   /\ EvalRaises(Get(classes[b].annotations, n, Empty))
                   /\ Get(classes[c].annotations, n, Empty)
                          # Get(classes[b].annotations, n, Empty)

\* C18 as stated: when some but not all annotations cannot be resolved,
\* only the unresolvable names get a degraded type; every name whose
\* annotation is resolvable still gets its resolved type.
C18_OnlyUnresolvableDegrade ==
    \A ci \in AllConfigs :
        LET e == Config(ci).endpoint
            c == ci[1]
            hook == GetFunc(classes, c, "__prepare__")
        IN  /\ \A i \in DOMAIN e.class_params :
                   LET raw == RawClassAnnotation(classes, c, e.class_params[i].name)
                   IN  ~EvalRaises(raw) => e.class_params[i].annotation = Eval(raw)
            /\ \A i \in DOMAIN e.prepare_params :
                   LET raw == DeclaredAnnotation(hook, e.prepare_params[i].name)
                   IN  ~EvalRaises(raw) => e.prepare_params[i].annotation = Eval(raw)
            /\ \A i \in DOMAIN e.params :
                   LET raw == DeclaredAnnotation(e.func, e.params[i].name)
                   IN  ~EvalRaises(raw) => e.params[i].annotation = Eval(raw)

\* C18 amended: when some annotation of a class (its ancestors included)
\* or of a callable cannot be resolved, every annotated name of that class
\* or callable gets its raw annotation, the resolvable ones too; the class,
\* the hook and each verb method are resolved separately, so a source all
\* of whose annotations can be resolved keeps its resolved types.
C18_WholeSourceDegrades ==
    \A ci \in AllConfigs :
        LET e == Config(ci).endpoint
            c == ci[1]
            hook == GetFunc(classes, c, "__prepare__")
        IN  /\ \A i \in DOMAIN e.class_params :
                   e.class_params[i].annotation
                       = IF ClassUnresolvable(classes, c)
                         THEN RawClassAnnotation(classes, c, e.class_params[i].name)
                         ELSE Eval(RawClassAnnotation(classes, c, e.class_params[i].name))
            /\ IF FuncUnresolvable(hook) THEN AllDeclared(e.prepare_params, hook)
                                         ELSE AllEvaluated(e.prepare_params, hook)
            /\ IF FuncUnresolvable(e.func) THEN AllDeclared(e.params, e.func)
                                           ELSE AllEvaluated(e.params, e.func)

\* an endpoint whose verb method has one unresolvable and one resolvable
\* annotation, both left raw, beside class fields that are resolved
C18_Witness ==
    \E ci \in AllConfigs :
        LET e == Config(ci).endpoint
        IN  /\ ~ClassUnresolvable(classes, ci[1])
            /\ \E i \in DOMAIN e.class_params :
                   ~IsStrAnnotation(e.class_params[i].annotation)
            /\ \E i, j \in DOMAIN e.params :
                   /\ EvalRaises(DeclaredAnnotation(e.func, e.params[i].name))
                   /\ ~EvalRaises(DeclaredAnnotation(e.func, e.params[j].name))
                   /\ IsStrAnnotation(e.params[j].annotation)

\* C19: when the string-form annotations of a view class (fields, hook and
\* verb method) name only types available at runtime, every parameter
\* annotation of the endpoint and its return annotation are the resolved
\* types, never strings.
C19_ResolvedNeverStrings ==
    \A ci \in AllConfigs :
        LET e == Config(ci).endpoint
            c == ci[1]
            hook == GetFunc(classes, c, "__prepare__")
        IN  (/\ ~ClassUnresolvable(classes, c)
             /\ ~FuncUnresolvable(hook)
             /\ ~FuncUnresolvable(e.func))
                => /\ \A i \in DOMAIN e.signature :
                          ~IsStrAnnotation(e.signature[i].annotation)
                   /\ ~IsStrAnnotation(e.return_annotation)
                   /\ \A i \in DOMAIN e.class_params :
                          e.class_params[i].annotation
                              = Eval(RawClassAnnotation(classes, c, e.class_params[i].name))
                   /\ AllEvaluated(e.prepare_params, hook)
                   /\ AllEvaluated(e.params, e.func)
                   /\ e.return_annotation = Eval(e.func.returns)

\* an endpoint with annotated fields, hook parameters, method parameters
\* and return, all written as strings and all resolved
C19_Witness ==
    \E ci \in AllConfigs :
        LET e == Config(ci).endpoint
            hook == GetFunc(classes, ci[1], "__prepare__")
        IN  /\ Len(e.class_params) >= 2
            /\ \E i \in DOMAIN e.prepare_params :
                   IsStrAnnotation(DeclaredAnnotation(hook, e.prepare_params[i].name))
            /\ \E i \in DOMAIN e.params :
                   IsStrAnnotation(DeclaredAnnotation(e.func, e.params[i].name))
            /\ IsStrAnnotation(e.func.returns)
            /\ \A i \in DOMAIN e.signature :
                   e.signature[i].annotation # Empty
                       => ~IsStrAnnotation(e.signature[i].annotation)
            /\ e.return_annotation # Empty /\ ~IsStrAnnotation(e.return_annotation)

\* C20 as stated: the return annotation of the endpoint is the resolved
\* return annotation of the verb method, and is empty both when the method
\* declares none and when its annotations cannot be resolved.
C20_ReturnEmptyWhenUnresolved ==
    \A ci \in AllConfigs :
        LET e == Config(ci).endpoint
        IN  e.return_annotation
                = IF e.func.returns = Empty \/ FuncUnresolvable(e.func)
                  THEN Empty
                  ELSE Eval(e.func.returns)

\* C20 amended: the return annotation of the endpoint is the resolved
\* return annotation of the verb method; it is empty when the method
\* declares none, and when the annotations of the method cannot be resolved
\* it is the return annotation as the method declares it, unevaluated.
C20_ReturnAnnotation ==
    \A ci \in AllConfigs :
        LET e == Config(ci).endpoint
        IN  e.return_annotation
                = IF e.func.returns = Empty THEN Empty
                  ELSE IF FuncUnresolvable(e.func) THEN e.func.returns
                  ELSE Eval(e.func.returns)

\* three endpoints: a resolved return annotation, none declared, and one
\* left as declared because the method's annotations cannot be resolved
C20_Witness ==
    \E c1, c2, c3 \in AllConfigs :
        /\ Config(c1).endpoint.func.returns = Empty
        /\ Config(c2).endpoint.func.returns # Empty
        /\ ~FuncUnresolvable(Config(c2).endpoint.func)
        /\ Config(c2).endpoint.return_annotation # Config(c2).endpoint.func.returns
        /\ Config(c3).endpoint.func.returns # Empty
        /\ FuncUnresolvable(Config(c3).endpoint.func)
        /\ Config(c3).endpoint.return_annotation = Config(c3).endpoint.func.returns

-----------------------------------------------------------------------------
(* Properties of view hierarchies.                                         *)

\* the config of class c for verb v
ConfigOf(c, v) ==
    LET configs == classes[c].meta.configs
    IN  configs[CHOOSE i \in DOMAIN configs : configs[i].method_name = v]

\* class c has a config for verb v
HasConfig(c, v) ==
    \E i \in DOMAIN classes[c].meta.configs : classes[c].meta.configs[i].method_name = v

\* the marker status_code left on a method as written, NoneInt without one
MarkerOf(f) ==
    IF HasKey(f.attrs, STATUS_CODE_ATTR) THEN Get(f.attrs, STATUS_CODE_ATTR, NoneInt)
    ELSE NoneInt

\* the names a method as written takes, self and the excluded names apart
PublicNames(f) ==
    {f.params[i].name : i \in {j \in DOMAIN f.params :
                                   ~Excluded(FuncExclude, f.params[j].name)}}

\* C21: the configs of a subclass come from the methods the subclass
\* resolves: a verb method the subclass writes replaces the ancestor's entry
\* (the endpoint wraps it, its parameters and its status code are those of
\* the override, none without a marker), a verb inherited unchanged keeps
\* the method and the status code of the ancestor's entry.
C21_OverrideReplaces ==
    \A ci \in AllConfigs :
        LET c == ci[1]
            cfg == Config(ci)
            v == cfg.method_name
            b == classes[c].base
        IN  IF HasKey(classes[c].funcs, v)
            THEN LET own == Get(classes[c].funcs, v, <<>>)
                 IN  /\ cfg.endpoint.func = own
                     /\ ParamNames(cfg.endpoint.params) = PublicNames(own)
                     /\ cfg.status_code = MarkerOf(own)
            ELSE /\ HasConfig(b, v)
                 /\ cfg.endpoint.func = ConfigOf(b, v).endpoint.func
                 /\ cfg.endpoint.params = ConfigOf(b, v).endpoint.params
                 /\ cfg.status_code = ConfigOf(b, v).status_code

\* a subclass that writes without marker a verb its base has with a status
\* code, and inherits another verb that has one
C21_Witness ==
    \E c \in DOMAIN classes : \E v, w \in Verbs :
        LET b == classes[c].base
        IN  /\ b \notin {NoClass, BaseViewId}
            /\ HasKey(classes[c].funcs, v) /\ HasConfig(b, v) /\ HasConfig(c, v)
            /\ ConfigOf(b, v).status_code # NoneInt
            /\ ConfigOf(c, v).status_code = NoneInt
            /\ ConfigOf(c, v).endpoint.params # ConfigOf(b, v).endpoint.params
            /\ ~HasKey(classes[c].funcs, w) /\ HasConfig(c, w)
            /\ ConfigOf(c, w).status_code # NoneInt

-----------------------------------------------------------------------------
(* Properties of the failures of an invocation.                            *)

\* the invocation is over: the endpoint returned or an error left it
Ended(req) == req.pc \in {"returned", "raised"}

\* the place of an event in a whole invocation
StageRank(stage) == CHOOSE i \in DOMAIN FullRun : FullRun[i] = stage

\* C22: within one invocation each stage (construct, hook, verb method)
\* executes at most once; after a stage raises no stage runs again and no
\* later stage runs; the error of the verb method reaches the caller once,
\* as it was raised, and an invocation that is over does nothing more.
C22_NoRetry ==
    /\ [](\A r \in DOMAIN reqs :
            LET req == reqs[r]
            IN  /\ \A i, j \in DOMAIN req.log :
                       i # j => req.log[i].stage # req.log[j].stage
                /\ req.thrown.stage # "" =>
                       /\ req.pc = "raised" /\ ~req.inside
                       /\ req.error = req.thrown.args
                       /\ req.result = NoResult
                       /\ \A i \in DOMAIN req.log :
                              StageRank(req.log[i].stage) <= StageRank(req.thrown.stage)
                /\ req.pc = "raised" => req.thrown.stage # "")
    /\ [][\A r \in DOMAIN reqs : Ended(reqs[r]) => reqs'[r] = reqs[r]]_vars

\* an invocation whose verb method raised after construction and hook, and
\* another invocation that went on to its end afterwards
C22_Witness ==
    \E r, q \in DOMAIN reqs :
        /\ reqs[r].thrown = Event("method", "HTTPException(401)")
        /\ reqs[r].error = "HTTPException(401)"
        /\ Stages(reqs[r]) = <<"construct", "prepare", "prepare.done", "method">>
        /\ r < q /\ reqs[q].pc = "returned"

-----------------------------------------------------------------------------
(* Properties of the routes a registration adds.                           *)

\* the configs of the view of the latest call that its methods filter keeps
Surviving ==
    LET a == regResult.args
        named(config) ==
            \E m \in Range(a.methods) : SameIgnoringCase(m, config.method_name)
    IN  IF TruthyList(a.methods) THEN SelectSeq(classes[a.view].meta.configs, named)
        ELSE classes[a.view].meta.configs

\* the latest call added one route for each surviving config, at the path
\* of the call, with the endpoint, the verb in upper case and the status
\* code of the config, the name prefix_verb and the options of the call
RoutesOfSurviving(prefix) ==
    LET a == regResult.args
    IN  /\ KeptRoutes
        /\ Len(NewRoutes) = Len(Surviving)
        /\ \A i \in DOMAIN Surviving :
               /\ NewRoutes[i].path = a.path
               /\ NewRoutes[i].endpoint = Surviving[i].endpoint
               /\ NewRoutes[i].methods = {upper(Surviving[i].method_name)}
               /\ NewRoutes[i].status_code = Surviving[i].status_code
               /\ NewRoutes[i].name = prefix \o "_" \o Surviving[i].method_name
               /\ NewRoutes[i].options = a.options

\* the view of the latest call is a view with configs, so routes are added
Registers ==
    /\ Called /\ regResult.raised = ""
    /\ classes[regResult.args.view].meta.configs # <<>>

\* C23 as stated: one route for each config that survives the filter,
\* named <prefix>_<verb> where the prefix is the name_prefix of the call if
\* one is given, else the name attribute of the view if it is set, else the
\* name of the class; the options of the call go to every route.
C23_PrefixIfGiven ==
    Registers =>
        LET a == regResult.args
        IN  RoutesOfSurviving(
                IF a.name_prefix # NoneStr THEN a.name_prefix
                ELSE IF hasattr(classes, a.view, "name")
                     THEN GetAttr(classes, a.view, "name", NoneStr)
                     ELSE classes[a.view].name)

\* C23 amended: as stated, but the prefix is the name_prefix of the call if
\* one is given and is not the empty string, else the name attribute of the
\* view if it is set and is not empty, else the name of the class.
C23_PrefixIfNotEmpty ==
    Registers =>
        LET a == regResult.args
            declared == GetAttr(classes, a.view, "name", NoneStr)
        IN  RoutesOfSurviving(
                IF a.name_prefix \notin {NoneStr, ""} THEN a.name_prefix
                ELSE IF hasattr(classes, a.view, "name") /\ declared # ""
                     THEN declared
                     ELSE classes[a.view].name)

\* a view whose name attribute is set got three routes named after it that
\* share the tags of the call, after a call with an explicit prefix
C23_Witness ==
    /\ Registers
    /\ regResult.args.options = TaggedOptions
    /\ Len(NewRoutes) = 3
    /\ \E i \in DOMAIN NewRoutes : NewRoutes[i].name = "items_get"
    /\ \E i \in DOMAIN regResult.before : regResult.before[i].name = "api_post"

\* C24: router.view(path, **options)(cls) leaves the router as
\* router.add_view(path, cls, **options) would have left it (the same routes,
\* the same warnings, the same error), and returns the class it was given,
\* which it has not changed.
C24_DecoratorAsAddView ==
    (Called /\ regResult.call = "view") =>
        LET a == regResult.args
            r == add_view(classes, regResult.before,
                          SubSeq(warnings, 1, regResult.warned), a)
        IN  /\ routes = r.routes
            /\ warnings = r.warnings
            /\ regResult.raised = r.raised
            /\ regResult.raised = "" =>
                   /\ regResult.returned = a.view
                   /\ classes[regResult.returned] = RegClasses[a.view]

\* the decorator applied with a methods filter to a view of three verbs,
\* after a call of add_view: two more routes, and the class is returned
C24_Witness ==
    /\ Called /\ regResult.call = "view" /\ regResult.raised = ""
    /\ TruthyList(regResult.args.methods)
    /\ Len(classes[regResult.args.view].meta.configs) = 3
    /\ Len(NewRoutes) = 2 /\ regResult.before # <<>>
    /\ regResult.returned = regResult.args.view

-----------------------------------------------------------------------------
(* Properties of the hook and the fields of a subclass.                    *)

\* the first class of the method resolution order of c that writes a hook
HookClass(c) ==
    LET mro == MRO(classes, c)
        i == CHOOSE j \in DOMAIN mro :
                 /\ HasKey(classes[mro[j]].funcs, "__prepare__")
                 /\ \A h \in 1..(j - 1) : ~HasKey(classes[mro[h]].funcs, "__prepare__")
    IN  mro[i]

\* the hook as that class writes it
NearestHook(c) == Get(classes[HookClass(c)].funcs, "__prepare__", <<>>)

\* the public parameters of a method as written, in order, with the default
\* of each
DeclaredPublic(f) ==
    LET kept == SelectSeq(f.params, LAMBDA p : ~Excluded(FuncExclude, p.name))
    IN  [i \in DOMAIN kept |-> <<kept[i].name, kept[i].default>>]

\* C25: the hook parameters of the endpoints of a class are those of the
\* most-derived __prepare__ of its method resolution order and no others: a
\* subclass with a hook of its own contributes the parameters of that hook
\* only, also when the hook calls the ancestor's, and a subclass without one
\* those of the nearest ancestor that has one.
C25_NearestHookOnly ==
    \A ci \in AllConfigs :
        LET e == Config(ci).endpoint
            hook == NearestHook(ci[1])
            others == UNION {ParamNames(e.class_params), ParamNames(e.params)}
        IN  /\ NamesAndDefaults(e.prepare_params) = DeclaredPublic(hook)
            /\ \A k \in Range(MRO(classes, ci[1])) \ {HookClass(ci[1])} :
                   HasKey(classes[k].funcs, "__prepare__") =>
                       \A n \in PublicNames(Get(classes[k].funcs, "__prepare__", <<>>)) :
                           n \in ParamNames(e.signature) =>
                               n \in PublicNames(hook) \cup others

\* a subclass whose own hook calls the hook of its base: the endpoint of a
\* verb it inherits takes the parameter of its hook and none of the base's
C25_Witness ==
    \E ci \in AllConfigs :
        LET c == ci[1]
            e == Config(ci).endpoint
            b == classes[c].base
        IN  /\ HookClass(c) = c /\ NearestHook(c).body = "super"
            /\ b # BaseViewId /\ HookClass(b) = b
            /\ PublicNames(NearestHook(b)) # {}
            /\ PublicNames(NearestHook(b)) \cap ParamNames(e.signature) = {}
            /\ ~HasKey(classes[c].funcs, Config(ci).method_name)
            /\ ParamNames(e.prepare_params) = {"item_id"}

\* the place in the method resolution order of c of the most remote
\* ancestor that annotates the name
Introducer(c, n) ==
    LET mro == MRO(classes, c)
    IN  CHOOSE j \in DOMAIN mro :
            /\ HasKey(classes[mro[j]].annotations, n)
            /\ \A h \in (j + 1)..Len(mro) : ~HasKey(classes[mro[h]].annotations, n)

\* the place of a name among the annotations a class writes
PlaceIn(k, n) ==
    CHOOSE i \in DOMAIN classes[k].annotations : classes[k].annotations[i].name = n

\* the value the name has as an attribute of c: that of the first class of
\* the method resolution order that assigns it, Empty when none does
VisibleDefault(c, n) ==
    LET mro == MRO(classes, c)
        having == {j \in DOMAIN mro : HasKey(classes[mro[j]].attrs, n)}
    IN  IF having = {} THEN Empty
        ELSE Get(classes[mro[CHOOSE j \in having : \A h \in having : j <= h]].attrs,
                 n, Empty)

\* C26: the class_params of a class are the annotated fields of all its
\* ancestors and its own, each once, the fields of an ancestor before those
\* of its descendants; a field a subclass annotates again stays at the place
\* its ancestor gave it and has the type and the default the subclass sees.
C26_FieldsOfAncestorsFirst ==
    \A ci \in AllConfigs :
        LET c == ci[1]
            ps == Config(ci).endpoint.class_params
            mro == MRO(classes, c)
            public == {n \in AnnotatedNames(c) : ~Excluded(ClassExclude, n)}
        IN  /\ ParamNames(ps) = public
            /\ Len(ps) = Cardinality(public)
            /\ \A i, j \in DOMAIN ps :
                   i < j =>
                       LET ki == Introducer(c, ps[i].name)
                           kj == Introducer(c, ps[j].name)
                       IN  \/ ki > kj
                           \/ /\ ki = kj
                              /\ PlaceIn(mro[ki], ps[i].name) < PlaceIn(mro[kj], ps[j].name)
            /\ \A i \in DOMAIN ps :
                   /\ ps[i].annotation =
                          IF ClassUnresolvable(classes, c)
                          THEN RawClassAnnotation(classes, c, ps[i].name)
                          ELSE Eval(RawClassAnnotation(classes, c, ps[i].name))
                   /\ ps[i].default = VisibleDefault(c, ps[i].name)

\* a subclass that annotates again, with another type and a default, a field
\* of its base, and adds a field: the field keeps its place between a field
\* of the base and the new one
C26_Witness ==
    \E ci \in AllConfigs :
        LET c == ci[1]
            b == classes[c].base
            ps == Config(ci).endpoint.class_params
        IN  /\ b # BaseViewId
            /\ \E i, j, k \in DOMAIN ps :
                   /\ i < j /\ j < k
                   /\ HasKey(classes[b].annotations, ps[i].name)
                   /\ ~HasKey(classes[c].annotations, ps[i].name)
                   /\ HasKey(classes[b].annotations, ps[j].name)
                   /\ HasKey(classes[c].annotations, ps[j].name)
                   /\ ps[j].annotation = Eval(Get(classes[c].annotations, ps[j].name, Empty))
                   /\ ps[j].annotation # Eval(Get(classes[b].annotations, ps[j].name, Empty))
                   /\ ps[j].default # Empty /\ ~HasKey(classes[b].attrs, ps[j].name)
                   /\ ~HasKey(classes[b].annotations, ps[k].name)
                   /\ HasKey(classes[c].annotations, ps[k].name)

-----------------------------------------------------------------------------
(* Properties of the endpoints of a subclass.                              *)

\* the names of the keyword arguments a stage of the invocation got
ArgNames(req, stage) == UNION {Keys(args) : args \in PassedTo(req, stage)}

\* C27: the endpoint in the configs of class C constructs an instance of C
\* itself and uses the class_params and the prepare_params of C, also for a
\* verb C inherits unchanged; the configs of C are a list of its own: the
\* list of an ancestor holds the endpoints of the ancestor only, one for
\* each of its verbs.
C27_EndpointOfItsClass ==
    /\ \A ci \in AllConfigs :
           LET c == ci[1]
               e == Config(ci).endpoint
           IN  /\ e.cls = c
               /\ ParamNames(e.class_params)
                      = {n \in AnnotatedNames(c) : ~Excluded(ClassExclude, n)}
               /\ NamesAndDefaults(e.prepare_params) = DeclaredPublic(NearestHook(c))
    /\ \A c \in DOMAIN classes :
           issubclass_BaseView(classes, c) /\ c # BaseViewId =>
               Len(classes[c].meta.configs) = Cardinality(DefinedVerbs(c))
    /\ \A r \in DOMAIN reqs :
           LET req == reqs[r]
               c == req.ep[1]
           IN  /\ req.instance # NoInstance => instances[req.instance].cls = c
               /\ ArgNames(req, "construct")
                      \subseteq {n \in AnnotatedNames(c) : ~Excluded(ClassExclude, n)}
               /\ ArgNames(req, "prepare") \subseteq PublicNames(NearestHook(c))

\* the endpoint of a verb that a subclass inherits from a base with other
\* fields and another hook was invoked: the instance is of the subclass and
\* constructor and hook got the arguments of the subclass
C27_Witness ==
    \E r \in DOMAIN reqs :
        LET req == reqs[r]
            c == req.ep[1]
            b == classes[c].base
            v == Config(req.ep).method_name
        IN  /\ b # BaseViewId /\ ~HasKey(classes[c].funcs, v) /\ HasConfig(b, v)
            /\ ConfigOf(b, v).endpoint.class_params # Config(req.ep).endpoint.class_params
            /\ ConfigOf(b, v).endpoint.prepare_params # Config(req.ep).endpoint.prepare_params
            /\ req.instance # NoInstance /\ instances[req.instance].cls = c
            /\ ArgNames(req, "construct") = {"request", "token"}
            /\ ArgNames(req, "prepare") = {"user_id"}

-----------------------------------------------------------------------------
(* Properties of the order of configs and routes.                          *)

\* the place of a verb in get, post, put, patch, delete, head, options
PlaceOfVerb(v) ==
    LET order == <<"get", "post", "put", "patch", "delete", "head", "options">>
    IN  CHOOSE i \in DOMAIN order : order[i] = v

\* the verb of a route, in lower case
VerbOfRoute(route) == CHOOSE v \in Verbs : upper(v) \in route.methods

\* C28: the entries of every configs list are in the order get, post, put,
\* patch, delete, head, options (the verbs the class has), whatever the
\* order in which the class body writes its verb methods or inherits them,
\* and add_view adds the routes of a view in that order.
C28_FixedVerbOrder ==
    /\ \A c \in DOMAIN classes :
           LET configs == classes[c].meta.configs
           IN  /\ c # BaseViewId =>
                      {configs[i].method_name : i \in DOMAIN configs} = DefinedVerbs(c)
               /\ \A i, j \in DOMAIN configs :
                      i < j => PlaceOfVerb(configs[i].method_name)
                                   < PlaceOfVerb(configs[j].method_name)
    /\ (Called /\ regResult.raised = "") =>
           /\ KeptRoutes
           /\ \A i, j \in DOMAIN NewRoutes :
                  i < j => PlaceOfVerb(VerbOfRoute(NewRoutes[i]))
                               < PlaceOfVerb(VerbOfRoute(NewRoutes[j]))

\* a subclass that writes post before get and inherits options, registered
\* both whole and with a filter that lists post before get
C28_Witness ==
    /\ Called /\ regResult.raised = ""
    /\ LET c == regResult.args.view
           own == classes[c].funcs
       IN  /\ classes[c].base # BaseViewId
           /\ Len(own) >= 2 /\ own[1].name = "post" /\ own[2].name = "get"
           /\ Len(classes[c].meta.configs) = 3
           /\ TruthyList(regResult.args.methods)
           /\ [i \in DOMAIN NewRoutes |-> NewRoutes[i].methods] = <<{"GET"}, {"POST"}>>
           /\ Len(regResult.before) = 3

\* C29: add_view with methods=[] does what add_view without a methods
\* argument does: it adds one route for every config of the view, in the
\* order of the configs, and not zero routes.
C29_EmptyListIsNoFilter ==
    (Called /\ regResult.args.methods = <<>>) =>
        LET a == regResult.args
            configs == classes[a.view].meta.configs
            unfiltered == add_view(classes, regResult.before,
                                   SubSeq(warnings, 1, regResult.warned),
                                   [a EXCEPT !.methods = NoneList])
        IN  /\ routes = unfiltered.routes
            /\ warnings = unfiltered.warnings
            /\ regResult.raised = unfiltered.raised
            /\ Registers =>
                   /\ KeptRoutes
                   /\ Len(NewRoutes) = Len(configs)
                   /\ Len(NewRoutes) > 0
                   /\ \A i \in DOMAIN configs :
                          /\ NewRoutes[i].endpoint = configs[i].endpoint
                          /\ NewRoutes[i].methods = {upper(configs[i].method_name)}

\* a view with three verbs registered with methods=[] after another call:
\* three routes more
C29_Witness ==
    /\ Registers
    /\ regResult.args.methods = <<>>
    /\ regResult.before # <<>>
    /\ Len(classes[regResult.args.view].meta.configs) = 3
    /\ Len(NewRoutes) = 3

-----------------------------------------------------------------------------
(* Properties of the request parameter.                                    *)

\* the classes that follow BaseView in the method resolution order of c:
\* the mixins listed after the view base
AfterBaseView(c) ==
    LET mro == MRO(classes, c)
        at == CHOOSE j \in DOMAIN mro : mro[j] = BaseViewId
    IN  {mro[j] : j \in (at + 1)..Len(mro)}

\* the public fields without a visible default that a class following
\* BaseView annotates
RequiredOfMixins(c) ==
    {n \in UNION {{classes[k].annotations[i].name : i \in DOMAIN classes[k].annotations} :
                      k \in AfterBaseView(c)} :
         ~Excluded(ClassExclude, n) /\ n # "request" /\ VisibleDefault(c, n) = Empty}

\* request is a parameter without default of the signature, and one of the
\* class_params the endpoint hands to the constructor by keyword
RequestRequired(e) ==
    /\ \E i \in DOMAIN e.signature :
           e.signature[i].name = "request" /\ e.signature[i].default = Empty
    /\ NameCount(e.signature, "request") = 1
    /\ "request" \in ParamNames(e.class_params)

\* C30 as stated: for every view class that does not itself assign request,
\* request is a required parameter, the first of every signature, and goes
\* to the constructor by keyword.
C30_RequestFirstUnlessAssigned ==
    \A ci \in AllConfigs :
        ~HasKey(classes[ci[1]].attrs, "request") =>
            /\ RequestRequired(Config(ci).endpoint)
            /\ Config(ci).endpoint.signature[1].name = "request"

\* C30: for every view class of which no class of the method resolution
\* order assigns request, request is a required parameter of every signature
\* and goes to the constructor by keyword; it is the first parameter when no
\* class following BaseView in the method resolution order annotates a
\* public field without default.
C30_RequestRequired ==
    \A ci \in AllConfigs :
        VisibleDefault(ci[1], "request") = Empty =>
            /\ RequestRequired(Config(ci).endpoint)
            /\ RequiredOfMixins(ci[1]) = {} =>
                   Config(ci).endpoint.signature[1].name = "request"

\* a class with a mixin listed after its view base whose only field has a
\* default: request is required, goes to the constructor and comes first,
\* before the field of the mixin
C30_Witness ==
    \E ci \in AllConfigs :
        LET e == Config(ci).endpoint
        IN  /\ VisibleDefault(ci[1], "request") = Empty
            /\ AfterBaseView(ci[1]) # {}
            /\ RequiredOfMixins(ci[1]) = {}
            /\ RequestRequired(e)
            /\ e.signature[1].name = "request"
            /\ \E i \in DOMAIN e.signature :
                   /\ i > 1
                   /\ \E k \in AfterBaseView(ci[1]) :
                          HasKey(classes[k].annotations, e.signature[i].name)

====
